---- MODULE Spec2Model ----
(***************************************************************************)
(* Multi-tenant BPMN workflow orchestrator (backend/core).                 *)
(*                                                                         *)
(* The model covers the request handlers of backend/core/views.py that     *)
(* drive workflow instances (instance start, user-task completion,        *)
(* service-task start with its outbound call, service-task callback, the  *)
(* tenant-scoped read endpoints), the tables of backend/core/models they   *)
(* read and write, and the interpreter contract of                         *)
(* backend/core/workflow_runtime.py.                                       *)
(*                                                                         *)
(* Every handler is a process with a program counter.  A database          *)
(* transaction is two steps: the first acquires the row locks of its       *)
(* SELECT ... FOR UPDATE and reads, the second writes and commits (or      *)
(* rolls back when the handler raises).  The outbound HTTP call of a       *)
(* service-task start happens between two transactions.                    *)
(***************************************************************************)
EXTENDS Integers, Sequences, FiniteSets, TLC

(***************************************************************************)
(* Bounds of the exploration.                                              *)
(***************************************************************************)
MaxRequests == 4
MaxInstances == 1

ReqIds == {1, 2}

(***************************************************************************)
(* Tenants and their API keys (created out of band).                       *)
(***************************************************************************)
Tenants == {"tA", "tB"}

RawKeyOf(t) == IF t = "tA" THEN "key-a" ELSE "key-b"

\* TenantContextMiddleware: the tenant whose key hashes to the hash of the
\* X-Tenant-Api-Key header, none ("") for a key no tenant has.
Authenticate(raw_key) ==
    IF \E t \in Tenants : RawKeyOf(t) = raw_key
    THEN CHOOSE t \in Tenants : RawKeyOf(t) = raw_key
    ELSE ""

NoId == 0
NoKey == ""

(***************************************************************************)
(* JSON values carried as payloads.  A value is a map or a scalar; a map   *)
(* produced by wrapping a scalar as {"result": x} is marked wrapped.       *)
(***************************************************************************)
EmptyMap == [map |-> TRUE, wrapped |-> FALSE, v |-> ""]

JsonMap(x) == [map |-> TRUE, wrapped |-> FALSE, v |-> x]

JsonScalar(x) == [map |-> FALSE, wrapped |-> FALSE, v |-> x]

coerce_payload(payload) == payload

normalize_result_payload_wrong(payload) == EmptyMap

normalize_result_payload(payload) ==
    IF payload.map THEN payload
    ELSE [map |-> TRUE, wrapped |-> TRUE, v |-> payload.v]

(***************************************************************************)
(* BPMN documents.  A document is the graph the interpreter walks: the     *)
(* tasks in tree order, the tasks ready after the start event, the tasks   *)
(* that become ready when a task completes, and each task's spec class.    *)
(***************************************************************************)
LeaveTasks == {"UserTask_Approve", "UserTask_Review", "ServiceTask_Notify"}

LeaveRequest ==
    [ process_key |-> "leave_request_v1",
      order   |-> <<"UserTask_Approve", "UserTask_Review", "ServiceTask_Notify">>,
      initial |-> LeaveTasks,
      succ    |-> [t \in LeaveTasks |-> {}],
      type    |-> [t \in LeaveTasks |->
                     IF t = "ServiceTask_Notify" THEN "ServiceTask" ELSE "UserTask"],
      manual  |-> {},
      script  |-> [t \in LeaveTasks |-> "none"],
      name    |-> [t \in LeaveTasks |-> t] ]

PayoutTasks == {"ServiceTask_Pay", "ScriptTask_Log", "ServiceTask_Receipt"}

Payout ==
    [ process_key |-> "payout_v1",
      order   |-> <<"ServiceTask_Pay", "ScriptTask_Log", "ServiceTask_Receipt">>,
      initial |-> {"ServiceTask_Pay"},
      succ    |-> [t \in PayoutTasks |->
                     IF t = "ServiceTask_Pay" THEN {"ScriptTask_Log"}
                     ELSE IF t = "ScriptTask_Log" THEN {"ServiceTask_Receipt"} ELSE {}],
      type    |-> [t \in PayoutTasks |->
                     IF t = "ScriptTask_Log" THEN "ScriptTask" ELSE "ServiceTask"],
      manual  |-> {},
      script  |-> [t \in PayoutTasks |-> IF t = "ScriptTask_Log" THEN "ok" ELSE "none"],
      name    |-> [t \in PayoutTasks |-> t] ]

\* Primary keys a service task can get: an instance has at most two.
ServiceTaskIds == 1..(2 * MaxInstances)

(***************************************************************************)
(* workflow_runtime.py                                                     *)
(***************************************************************************)
WAITING_TASK_SPEC_NAMES ==
    {"UserTask", "ManualTask", "ServiceTask", "SendTask", "ExternalTask"}

USER_WAITING_TASK_SPEC_NAMES == {"UserTask", "ManualTask"}

SCRIPT_TASK_SPEC_SUFFIX == {"ScriptTask"}

\* The engine state: the serialized form is this record, stored verbatim.
build_workflow(doc) ==
    [ready |-> doc.initial, completed |-> {}, results |-> {}]

serialize_workflow(wf) == wf

load_workflow_from_state(doc, serialized_state) == serialized_state

get_ready_tasks(doc, wf) ==
    SelectSeq(doc.order, LAMBDA t : t \in wf.ready)

is_waiting_task(doc, t) ==
    \/ t \in doc.manual
    \/ doc.type[t] \in WAITING_TASK_SPEC_NAMES

is_script_task(doc, t) == doc.type[t] \in SCRIPT_TASK_SPEC_SUFFIX

has_waiting_tasks(doc, wf) ==
    \E t \in wf.ready : is_waiting_task(doc, t)

determine_status_no_waiting(doc, wf) ==
    IF wf.ready = {} THEN "completed" ELSE "running"

determine_status(doc, wf) ==
    IF has_waiting_tasks(doc, wf) THEN "waiting"
    ELSE IF wf.ready = {} THEN "completed"
    ELSE "running"

\* Completing a task in the engine: it leaves the ready set and its
\* successors become ready.
EngineComplete(doc, wf, t) ==
    [wf EXCEPT !.ready = (@ \ {t}) \cup (doc.succ[t] \ wf.completed),
               !.completed = @ \cup {t}]

\* run_script_task raises ScriptTaskExecutionError for a missing or empty
\* source, for a compile result that lists errors and for a runtime
\* exception.
ScriptFails(doc, t) ==
    is_script_task(doc, t) /\ doc.script[t] \notin {"ok", "compile_raises"}

\* compile_restricted is called outside any try block: when it raises
\* SyntaxError for a source it refuses, instead of returning a result that
\* lists the errors, the exception leaves _run_until_waiting.
ScriptRaises(doc, t) == is_script_task(doc, t) /\ doc.script[t] = "compile_raises"

\* One pass of the for loop of _run_until_waiting over the ready tasks
\* collected at the top of the pass.
RECURSIVE RunPass_continue(_, _, _)
RunPass_continue(doc, wf, tasks) ==
    IF tasks = <<>>
    THEN [wf |-> wf, failed |-> FALSE, raised |-> FALSE, progressed |-> FALSE]
    ELSE LET t == Head(tasks) IN
         IF is_waiting_task(doc, t) THEN RunPass_continue(doc, wf, Tail(tasks))
         ELSE IF ScriptRaises(doc, t)
              THEN [wf |-> wf, failed |-> FALSE, raised |-> TRUE, progressed |-> TRUE]
         ELSE IF ScriptFails(doc, t)
              THEN [RunPass_continue(doc, wf, Tail(tasks))
                        EXCEPT !.failed = TRUE, !.progressed = TRUE]
              ELSE LET rest == RunPass_continue(doc, EngineComplete(doc, wf, t), Tail(tasks))
                   IN [rest EXCEPT !.progressed = TRUE]

RECURSIVE RunPass(_, _, _)
RunPass(doc, wf, tasks) ==
    IF tasks = <<>>
    THEN [wf |-> wf, failed |-> FALSE, raised |-> FALSE, progressed |-> FALSE]
    ELSE LET t == Head(tasks) IN
         IF is_waiting_task(doc, t) THEN RunPass(doc, wf, Tail(tasks))
         ELSE IF ScriptRaises(doc, t)
              THEN [wf |-> wf, failed |-> FALSE, raised |-> TRUE, progressed |-> TRUE]
         ELSE IF ScriptFails(doc, t)
              THEN [wf |-> wf, failed |-> TRUE, raised |-> FALSE, progressed |-> TRUE]
              ELSE LET rest == RunPass(doc, EngineComplete(doc, wf, t), Tail(tasks))
                   IN [rest EXCEPT !.progressed = TRUE]

run_until_waiting_one_pass(doc, wf) ==
    LET pass == RunPass(doc, wf, get_ready_tasks(doc, wf)) IN
    IF pass.raised THEN [status |-> "raised", wf |-> pass.wf]
    ELSE IF pass.failed THEN [status |-> "failed", wf |-> pass.wf]
    ELSE [status |-> determine_status(doc, pass.wf), wf |-> pass.wf]

RECURSIVE run_until_waiting(_, _)
run_until_waiting(doc, wf) ==
    LET ready_tasks == get_ready_tasks(doc, wf) IN
    IF ready_tasks = <<>> THEN [status |-> determine_status(doc, wf), wf |-> wf]
    ELSE LET pass == RunPass(doc, wf, ready_tasks) IN
         IF pass.raised THEN [status |-> "raised", wf |-> pass.wf]
         ELSE IF pass.failed THEN [status |-> "failed", wf |-> pass.wf]
         ELSE IF ~pass.progressed
              THEN [status |-> determine_status(doc, wf), wf |-> wf]
              ELSE run_until_waiting(doc, pass.wf)

collect_waiting_user_tasks(doc, wf) ==
    SelectSeq(get_ready_tasks(doc, wf),
              LAMBDA t : is_waiting_task(doc, t)
                         /\ doc.type[t] \in USER_WAITING_TASK_SPEC_NAMES)

collect_waiting_service_tasks_service_like(doc, wf) ==
    SelectSeq(get_ready_tasks(doc, wf),
              LAMBDA t : is_waiting_task(doc, t)
                         /\ doc.type[t] \in {"ServiceTask", "SendTask", "ExternalTask"})

collect_waiting_service_tasks(doc, wf) ==
    SelectSeq(get_ready_tasks(doc, wf),
              LAMBDA t : is_waiting_task(doc, t) /\ doc.type[t] = "ServiceTask")

\* An exception leaves the interpreter: WorkflowRuntimeError, or whatever a
\* script's compilation raised.
RaisedResult ==
    [ raised |-> TRUE, status |-> "error",
      serialized_state |-> [ready |-> {}, completed |-> {}, results |-> {}],
      waiting_user_tasks |-> <<>>, waiting_service_tasks |-> <<>> ]

\* WorkflowRunResult.
RunResult(doc, run) ==
    IF run.status = "raised" THEN RaisedResult
    ELSE
    [ raised |-> FALSE,
      status |-> run.status,
      serialized_state |-> serialize_workflow(run.wf),
      waiting_user_tasks |->
          IF run.status = "failed" THEN <<>> ELSE collect_waiting_user_tasks(doc, run.wf),
      waiting_service_tasks |->
          IF run.status = "failed" THEN <<>> ELSE collect_waiting_service_tasks(doc, run.wf) ]

start_workflow_from_definition(doc) ==
    RunResult(doc, run_until_waiting(doc, build_workflow(doc)))

apply_task_result(wf, t, task_result) ==
    [wf EXCEPT !.results = {p \in @ : p[1] # t} \cup {<<t, task_result>>}]

\* completed_task_id: str | None = None
NoTask == ""

\* The outcomes of resume_workflow_from_state.  Without a completed task the
\* engine is only advanced.  A ready task is completed and the engine
\* advanced.  A task that is in the tree but no longer ready
\* is either found by get_task_from_id and completed again (the engine
\* keeps its state) or not found among the ready tasks, which raises
\* WorkflowRuntimeError; a task that is not in the tree raises.
resume_workflow_from_state_rebuild(doc, serialized_state, completed_task_id, task_result) ==
    LET wf == load_workflow_from_state(doc, serialized_state) IN
    IF completed_task_id = NoTask
    THEN { RunResult(doc, run_until_waiting(doc, build_workflow(doc))) }
    ELSE IF completed_task_id \in wf.ready
    THEN { RunResult(doc, run_until_waiting(doc,
               EngineComplete(doc, apply_task_result(wf, completed_task_id, task_result),
                              completed_task_id))) }
    ELSE { RaisedResult }

resume_workflow_from_state(doc, serialized_state, completed_task_id, task_result) ==
    LET wf == load_workflow_from_state(doc, serialized_state) IN
    IF completed_task_id = NoTask
    THEN { RunResult(doc, run_until_waiting(doc, wf)) }
    ELSE IF completed_task_id \in wf.ready
    THEN { RunResult(doc, run_until_waiting(doc,
               EngineComplete(doc, apply_task_result(wf, completed_task_id, task_result),
                              completed_task_id))) }
    ELSE IF completed_task_id \in wf.completed
    THEN { RunResult(doc, run_until_waiting(doc,
               apply_task_result(wf, completed_task_id, task_result))),
           RaisedResult }
    ELSE { RaisedResult }

(***************************************************************************)
(* State: the tables of backend/core/models, the request handlers in       *)
(* flight, and the observable effects outside the database.                *)
(***************************************************************************)
VARIABLES
    versions,       \* WorkflowDefinitionVersion rows (with their definition)
    catalog,        \* CatalogServiceTask rows (with their catalog entry)
    instances,      \* WorkflowInstance rows
    userTasks,      \* UserTask rows
    serviceTasks,   \* ServiceTask rows
    utIdem,         \* UserTaskCompletionIdempotency rows
    cbIdem,         \* ServiceTaskCallbackIdempotency rows
    audit,          \* AuditEvent rows
    req,            \* the request handlers: position, inputs, locals
    lastResponse,   \* the request answered last and its response
    issued,         \* number of requests received so far
    clock,          \* timezone.now()
    resumeCalls,    \* per service-task row: calls of resume_workflow_from_state
    outbound        \* per service-task row: outbound calls sent

vars == <<versions, catalog, instances, userTasks, serviceTasks, utIdem, cbIdem,
          audit, req, lastResponse, issued, clock, resumeCalls, outbound>>

db == <<versions, catalog, instances, userTasks, serviceTasks, utIdem, cbIdem, audit>>

\* Rows are addressed by primary key; a primary key is the position of the
\* row in its table.
Ids(table) == 1..Len(table)

OwnedBy_any(row, tenant) == TRUE

\* .filter(tenant=request.tenant, ...): every lookup of a view is scoped to
\* the tenant the API key authenticates.
OwnedBy(row, tenant) == row.tenant = tenant

(***************************************************************************)
(* serializers.py                                                          *)
(***************************************************************************)
UserTaskSerializer(id, task, instance_status) ==
    [ id |-> id, task_id |-> task.task_id, status |-> task.status,
      actor_identity |-> task.actor_identity, action |-> task.action,
      action_data |-> task.action_data, completed_at |-> task.completed_at,
      workflow_instance_id |-> task.workflow_instance,
      workflow_instance_status |-> instance_status ]

ServiceTaskSerializer(id, task, instance_status) ==
    [ id |-> id, task_id |-> task.task_id, element_id |-> task.element_id,
      status |-> task.status, execution_mode |-> task.execution_mode,
      catalog_service_task_id |-> task.catalog_service_task,
      started_at |-> task.started_at, completed_at |-> task.completed_at,
      workflow_instance_id |-> task.workflow_instance,
      workflow_instance_status |-> instance_status ]

Detail(text) == [detail |-> text]

Response(code, body) == [code |-> code, body |-> body]

NoResponse == Response(0, Detail(""))

(***************************************************************************)
(* Request handlers.                                                       *)
(***************************************************************************)
NoInstance ==
    [id |-> NoId, status |-> "", serialized_state |-> build_workflow(Payout)]

NoHttp == [status_code |-> 0, payload |-> EmptyMap, error |-> ""]

IdleReq ==
    [ pc |-> "idle", kind |-> "none", tenant |-> "", target |-> NoId,
      key |-> NoKey, hash |-> <<>>,
      actor |-> "", action |-> "", data |-> EmptyMap,
      mode |-> "", ceid |-> "", ctid |-> "", bound |-> NoId,
      raw_key |-> "", body |-> <<>>, ts |-> <<>>, sig |-> <<>>,
      idemSeen |-> NoId, seen |-> "", inst |-> NoInstance, http |-> NoHttp,
      cause |-> "", process_key |-> "", upload |-> "", version_value |-> 0,
      created |-> FALSE, resp |-> NoResponse, branch |-> "" ]

\* A handler that has returned: what it was asked, which branch it took and
\* what it answered; its locals are gone.
Done(rq, code, body, branch) ==
    [IdleReq EXCEPT !.pc = "done", !.kind = rq.kind, !.tenant = rq.tenant,
                    !.target = rq.target, !.key = rq.key, !.cause = rq.cause,
                    !.resp = Response(code, body), !.branch = branch]

\* One step of handler r.  When the handler returns, its response is sent
\* and the worker is free again.
Step(r, rq) ==
    /\ req' = [req EXCEPT ![r] = IF rq.pc = "done" THEN IdleReq ELSE rq]
    /\ lastResponse' = IF rq.pc = "done" THEN rq ELSE lastResponse

\* A new request is served by the first worker that is free.
CanIssue(r) ==
    /\ req[r].pc = "idle"
    /\ \A q \in ReqIds : q < r => req[q].pc # "idle"
    /\ issued < MaxRequests

\* Row locks taken by SELECT ... FOR UPDATE and held until the transaction
\* ends.  select_related("workflow_instance") joins the instance row into the
\* locking query, so the service-task transactions lock it as well.
InUserTaskTxn(r) == req[r].pc = "ut_txn"

InServiceTaskTxn_across_call(r) ==
    req[r].pc \in {"st_txn1", "st_http", "st_txn2", "cb_txn1", "cb_txn2"}

InServiceTaskTxn(r) == req[r].pc \in {"st_txn1", "st_txn2", "cb_txn1", "cb_txn2"}

UserTaskLocked(id) == \E r \in ReqIds : InUserTaskTxn(r) /\ req[r].target = id

ServiceTaskLocked(id) == \E r \in ReqIds : InServiceTaskTxn(r) /\ req[r].target = id

InstanceLocked(id) ==
    \E r \in ReqIds : InServiceTaskTxn(r)
                      /\ serviceTasks[req[r].target].workflow_instance = id

create_audit_event_twice(log, tenant, event_type, instance, task_id) ==
    log \o << [tenant |-> tenant, event_type |-> event_type,
               workflow_instance |-> instance, task_id |-> task_id],
              [tenant |-> tenant, event_type |-> event_type,
               workflow_instance |-> instance, task_id |-> task_id] >>

create_audit_event(log, tenant, event_type, instance, task_id) ==
    Append(log, [tenant |-> tenant, event_type |-> event_type,
                 workflow_instance |-> instance, task_id |-> task_id])

(***************************************************************************)
(* Catalog binding (views.py).                                             *)
(***************************************************************************)
MinOf(S) == CHOOSE x \in S : \A y \in S : x <= y

\* A catalog row that was deleted: its primary key is not used again.
DeletedCatalogTask == [tenant |-> "", entry |-> "", external_id |-> ""]

ensure_catalog_service_task_binding(tenant, catalog_entry_id, catalog_task_id) ==
    IF catalog_entry_id = "" \/ catalog_task_id = "" THEN NoId
    ELSE LET found == {c \in Ids(catalog) :
                          /\ catalog[c].tenant = tenant
                          /\ catalog[c].entry = catalog_entry_id
                          /\ catalog[c].external_id = catalog_task_id}
         IN IF found = {} THEN NoId ELSE MinOf(found)

RECURSIVE FindBinding(_, _, _, _)
FindBinding(tenant, placeholders, element_id, element_name) ==
    IF placeholders = <<>> THEN NoId
    ELSE LET placeholder == Head(placeholders)
             skipped ==
                 \/ /\ element_id # "" /\ placeholder.element_id # element_id
                    /\ element_name # "" /\ placeholder.element_name # element_name
                 \/ placeholder.catalog_entry_id = ""
                 \/ placeholder.service_task_id = ""
             catalog_task ==
                 ensure_catalog_service_task_binding(
                     tenant, placeholder.catalog_entry_id, placeholder.service_task_id)
         IN IF ~skipped /\ catalog_task # NoId THEN catalog_task
            ELSE FindBinding(tenant, Tail(placeholders), element_id, element_name)

find_catalog_binding_from_definition(tenant, definition_version, element_id, element_name) ==
    FindBinding(tenant, versions[definition_version].catalog_binding_placeholders,
                element_id, element_name)

(***************************************************************************)
(* Materialization of waiting tasks (views.py).                            *)
(***************************************************************************)
NewUserTask(tenant, instance, task_id) ==
    [ tenant |-> tenant, workflow_instance |-> instance, task_id |-> task_id,
      status |-> "pending", actor_identity |-> "", action |-> "",
      action_data |-> EmptyMap, completed_at |-> 0 ]

NewServiceTask(tenant, instance, task_id, element_name, catalog_task) ==
    [ tenant |-> tenant, workflow_instance |-> instance, task_id |-> task_id,
      element_id |-> task_id, element_name |-> element_name,
      status |-> "pending", execution_mode |-> "",
      catalog_service_task |-> catalog_task,
      request_payload |-> EmptyMap, response_payload |-> EmptyMap,
      last_error |-> "", started_at |-> 0, completed_at |-> 0 ]

create_user_tasks_for_instance_unfiltered(table, tenant, instance, waiting_user_tasks) ==
    table \o [i \in 1..Len(waiting_user_tasks) |->
                 NewUserTask(tenant, instance, waiting_user_tasks[i])]

create_user_tasks_for_instance(table, tenant, instance, waiting_user_tasks) ==
    LET existing == {table[i].task_id : i \in
                        {j \in Ids(table) : /\ table[j].tenant = tenant
                                            /\ table[j].workflow_instance = instance}}
        new_tasks == SelectSeq(waiting_user_tasks, LAMBDA t : t \notin existing)
    IN table \o [i \in 1..Len(new_tasks) |-> NewUserTask(tenant, instance, new_tasks[i])]

create_service_tasks_for_instance(table, tenant, instance, definition_version, waiting) ==
    LET existing == {table[i].task_id : i \in
                        {j \in Ids(table) : /\ table[j].tenant = tenant
                                            /\ table[j].workflow_instance = instance}}
        new_tasks == SelectSeq(waiting, LAMBDA t : t \notin existing)
        doc == versions[definition_version].doc
    IN table \o [i \in 1..Len(new_tasks) |->
                    NewServiceTask(tenant, instance, new_tasks[i], doc.name[new_tasks[i]],
                        find_catalog_binding_from_definition(
                            tenant, definition_version, new_tasks[i], doc.name[new_tasks[i]]))]

(***************************************************************************)
(* Init: the deployment the end-to-end tests set up before any instance    *)
(* is started: two tenants with their API keys, the synced capability      *)
(* catalog and the uploaded BPMN definitions.                              *)
(***************************************************************************)
ReceiptPlaceholder ==
    [ element_id |-> "ServiceTask_Receipt", element_name |-> "ServiceTask_Receipt",
      catalog_entry_id |-> "cap_pay", service_task_id |-> "receipt" ]

Init ==
    /\ versions =
         << [tenant |-> "tA", process_key |-> "leave_request_v1", version |-> 1,
             doc |-> LeaveRequest, catalog_binding_placeholders |-> <<>>],
            [tenant |-> "tA", process_key |-> "payout_v1", version |-> 1,
             doc |-> Payout, catalog_binding_placeholders |-> <<ReceiptPlaceholder>>] >>
    /\ catalog =
         << [tenant |-> "tA", entry |-> "cap_leave", external_id |-> "send_email"],
            [tenant |-> "tA", entry |-> "cap_pay", external_id |-> "receipt"],
            [tenant |-> "tB", entry |-> "cap_leave", external_id |-> "send_email"] >>
    /\ instances = <<>>
    /\ userTasks = <<>>
    /\ serviceTasks = <<>>
    /\ utIdem = <<>>
    /\ cbIdem = <<>>
    /\ audit = <<>>
    /\ req = [r \in ReqIds |-> IdleReq]
    /\ lastResponse = IdleReq
    /\ issued = 0
    /\ clock = 1
    /\ resumeCalls = [id \in ServiceTaskIds |-> 0]
    /\ outbound = [id \in ServiceTaskIds |-> 0]

(***************************************************************************)
(* WorkflowInstanceStartView.post                                          *)
(*                                                                         *)
(* The handler is not wrapped in transaction.atomic(); its inserts         *)
(* (instance, audit event, user tasks, service tasks) are taken as one     *)
(* step: the service-task rows are inserted last and a user-task           *)
(* completion reads only the task and its instance, so only the list       *)
(* endpoints could observe a prefix of the inserts.                        *)
(***************************************************************************)
ProcessKeys == {"leave_request_v1", "payout_v1"}

WorkflowInstanceStart(r, tenant, process_key, version) ==
    /\ CanIssue(r)
    /\ Len(instances) < MaxInstances
    /\ issued' = issued + 1
    /\ LET rq == [IdleReq EXCEPT !.kind = "instance_start", !.tenant = tenant]
           found == {v \in Ids(versions) : /\ OwnedBy(versions[v], tenant)
                                           /\ versions[v].process_key = process_key
                                           /\ versions[v].version = version}
       IN IF found = {}
          THEN /\ Step(r, Done(rq, 404, Detail("Not found."), "not_found"))
               /\ UNCHANGED <<instances, userTasks, serviceTasks, audit>>
          ELSE LET version_entry == MinOf(found)
                   run_result == start_workflow_from_definition(versions[version_entry].doc)
                   id == Len(instances) + 1
               IN IF run_result.raised
                  THEN \* only WorkflowRuntimeError is caught by the view
                       /\ Step(r, Done(rq, 500, Detail("Server Error"), "start_raised"))
                       /\ UNCHANGED <<instances, userTasks, serviceTasks, audit>>
                  ELSE
                  /\ instances' = Append(instances,
                        [ tenant |-> tenant, definition_version |-> version_entry,
                          status |-> run_result.status,
                          serialized_state |-> run_result.serialized_state ])
                  /\ audit' = create_audit_event(audit, tenant, "instance_start", id, "")
                  /\ userTasks' = create_user_tasks_for_instance(
                                     userTasks, tenant, id, run_result.waiting_user_tasks)
                  /\ serviceTasks' = create_service_tasks_for_instance(
                                     serviceTasks, tenant, id, version_entry,
                                     run_result.waiting_service_tasks)
                  /\ Step(r,
                        Done([rq EXCEPT !.target = id], 201,
                             [id |-> id, status |-> run_result.status], "created"))
    /\ UNCHANGED <<versions, catalog, utIdem, cbIdem, clock, resumeCalls, outbound>>

(***************************************************************************)
(* UserTaskCompleteView.post                                               *)
(***************************************************************************)
Actors == {"user1"}

Actions == {"approve", "reject"}

IdempotencyKeys == {NoKey, "k1"}

\* sha256 over the canonical JSON of {actor, action, data}: equal hashes for
\* equal triples only.
UserTaskRequestHash(actor, action, data) == <<actor, action, data>>

IdemLookup(table, tenant, key) ==
    LET found == {i \in Ids(table) : /\ table[i].tenant = tenant
                                     /\ table[i].idempotency_key = key}
    IN IF key = NoKey \/ found = {} THEN NoId ELSE MinOf(found)

UserTaskIdempotencyConflict_hash_only(record, task_id, request_hash) ==
    record.request_hash # request_hash

\* The stored record answers for another task or another request body.
UserTaskIdempotencyConflict(record, task_id, request_hash) ==
    \/ record.user_task # task_id
    \/ record.request_hash # request_hash

UserTaskReplay_current(record, current) == current

\* A replay answers with the payload stored by the first request; current is
\* what serializing the task now would give.
UserTaskReplay(record, current) == record.response_payload

UserTaskAlreadyCompleted_never(status) == FALSE

\* if task.status == UserTaskStatus.COMPLETED
UserTaskAlreadyCompleted(status) == status = "completed"

UserTaskCompleted_unstamped(task, actor, action, action_data, now) ==
    [task EXCEPT !.status = "completed", !.actor_identity = actor,
                 !.action = action, !.action_data = action_data]

\* The fields a completion writes (update_fields of task.save).
UserTaskCompleted(task, actor, action, action_data, now) ==
    [task EXCEPT !.status = "completed", !.actor_identity = actor,
                 !.action = action, !.action_data = action_data,
                 !.completed_at = now]

UserTaskCompleteBegin(r, tenant, task_id, actor, action, key) ==
    /\ CanIssue(r)
    /\ issued' = issued + 1
    /\ task_id \in Ids(userTasks)
    /\ LET rq == [IdleReq EXCEPT !.kind = "user_task_complete", !.tenant = tenant,
                                 !.target = task_id, !.actor = actor, !.action = action,
                                 !.data = EmptyMap, !.key = key,
                                 !.hash = UserTaskRequestHash(actor, action, EmptyMap)]
       IN IF ~OwnedBy(userTasks[task_id], tenant)
          THEN Step(r, Done(rq, 404, Detail("Not found."), "not_found"))
          ELSE /\ ~UserTaskLocked(task_id)
               /\ Step(r,
                             [rq EXCEPT !.pc = "ut_txn",
                                        !.idemSeen = IdemLookup(utIdem, tenant, key)])
    /\ UNCHANGED <<db, clock, resumeCalls, outbound>>

UserTaskCompleteCommit(r) ==
    /\ req[r].pc = "ut_txn"
    /\ LET rq == req[r]
           id == rq.target
           task == userTasks[id]
           instance_status == instances[task.workflow_instance].status
           duplicate == rq.key # NoKey /\ IdemLookup(utIdem, rq.tenant, rq.key) # NoId
           record(payload) ==
               [ tenant |-> rq.tenant, user_task |-> id, idempotency_key |-> rq.key,
                 request_hash |-> rq.hash, response_payload |-> payload ]
       IN IF rq.idemSeen # NoId
          THEN /\ Step(r,
                    IF UserTaskIdempotencyConflict(utIdem[rq.idemSeen], id, rq.hash)
                    THEN Done(rq, 409, Detail("Idempotency key conflict."), "conflict")
                    ELSE Done(rq, 200,
                              UserTaskReplay(utIdem[rq.idemSeen],
                                             UserTaskSerializer(id, task, instance_status)),
                              "replay"))
               /\ UNCHANGED <<userTasks, utIdem, audit, clock>>
          ELSE IF duplicate
          THEN \* the INSERT violates uniq_user_task_idempotency_per_tenant
               /\ Step(r,
                             Done(rq, 500, Detail("IntegrityError"), "integrity_error"))
               /\ UNCHANGED <<userTasks, utIdem, audit, clock>>
          ELSE IF UserTaskAlreadyCompleted(task.status)
          THEN LET response_payload == UserTaskSerializer(id, task, instance_status)
               IN /\ utIdem' = IF rq.key # NoKey
                               THEN Append(utIdem, record(response_payload)) ELSE utIdem
                  /\ Step(r,
                                Done(rq, 200, response_payload, "already_completed"))
                  /\ UNCHANGED <<userTasks, audit, clock>>
          ELSE LET saved == UserTaskCompleted(task, rq.actor, rq.action, rq.data, clock)
                   response_payload == UserTaskSerializer(id, saved, instance_status)
               IN /\ userTasks' = [userTasks EXCEPT ![id] = saved]
                  /\ clock' = clock + 1
                  /\ audit' = create_audit_event(audit, rq.tenant, "user_task_complete",
                                                 task.workflow_instance, task.task_id)
                  /\ utIdem' = IF rq.key # NoKey
                               THEN Append(utIdem, record(response_payload)) ELSE utIdem
                  /\ Step(r, Done(rq, 200, response_payload, "completed"))
    /\ UNCHANGED <<versions, catalog, instances, serviceTasks, cbIdem, issued,
                   resumeCalls, outbound>>

(***************************************************************************)
(* ServiceTaskStartView.post                                               *)
(***************************************************************************)
ExecutionModes == {"sync", "async"}

\* (catalog_entry_id, service_task_id) as supplied by the caller.
BindingInputs ==
    { <<"", "">>, <<"cap_leave", "send_email">> }

\* What _perform_service_task_request (urlopen with timeout=10) does, by
\* cause: a 2xx response; a non-2xx response (HTTPError); a connection that
\* is not established within the timeout (the OSError of the send is wrapped
\* in URLError); a response that does not arrive within the timeout (the
\* TimeoutError of getresponse()/read() is neither an HTTPError nor a
\* URLError and is not caught).
HttpOutcomes ==
    { [cause |-> "response", raised |-> FALSE, status_code |-> 200,
       payload |-> JsonScalar("accepted"), error |-> ""],
      [cause |-> "http_error", raised |-> FALSE, status_code |-> 500,
       payload |-> JsonMap("oops"), error |-> "service_task_http_error"],
      [cause |-> "connect_timeout", raised |-> FALSE, status_code |-> 0,
       payload |-> EmptyMap, error |-> "<urlopen error timed out>"],
      [cause |-> "read_timeout", raised |-> TRUE, status_code |-> 0,
       payload |-> EmptyMap, error |-> ""] }

InstanceSnapshot(id) ==
    [ id |-> id, status |-> instances[id].status,
      serialized_state |-> instances[id].serialized_state ]

DocOfInstance(id) == versions[instances[id].definition_version].doc

StartGateOpen_wrong(status) == status # "completed"

StartGateOpen_retry_only(status) == status = "failed"

StartGateOpen(status) == status \in {"pending", "failed"}

ResolveBinding_first_wins(tenant, task, catalog_entry_id, catalog_task_id) ==
    LET supplied == ensure_catalog_service_task_binding(
                        tenant, catalog_entry_id, catalog_task_id)
    IN IF supplied # NoId THEN [code |-> "ok", id |-> supplied]
       ELSE IF task.catalog_service_task # NoId
       THEN [code |-> "ok", id |-> task.catalog_service_task]
       ELSE [code |-> "missing", id |-> NoId]

\* The binding the first transaction resolves: "conflict", "missing", or the
\* primary key of the catalog task.
ResolveBinding(tenant, task, catalog_entry_id, catalog_task_id) ==
    LET bound_task == task.catalog_service_task IN
    IF bound_task # NoId
    THEN IF \/ catalog_entry_id # "" /\ catalog[bound_task].entry # catalog_entry_id
            \/ catalog_task_id # "" /\ catalog[bound_task].external_id # catalog_task_id
         THEN [code |-> "conflict", id |-> NoId]
         ELSE [code |-> "ok", id |-> bound_task]
    ELSE LET supplied == ensure_catalog_service_task_binding(
                             tenant, catalog_entry_id, catalog_task_id)
             from_definition == find_catalog_binding_from_definition(
                             tenant, instances[task.workflow_instance].definition_version,
                             task.element_id, task.element_name)
         IN IF supplied # NoId THEN [code |-> "ok", id |-> supplied]
            ELSE IF from_definition # NoId THEN [code |-> "ok", id |-> from_definition]
            ELSE [code |-> "missing", id |-> NoId]

ServiceTaskStartBegin(r, tenant, task_id, mode, binding) ==
    /\ CanIssue(r)
    /\ issued' = issued + 1
    /\ task_id \in Ids(serviceTasks)
    /\ LET rq == [IdleReq EXCEPT !.kind = "service_task_start", !.tenant = tenant,
                                 !.target = task_id, !.mode = mode,
                                 !.ceid = binding[1], !.ctid = binding[2]]
       IN IF ~OwnedBy(serviceTasks[task_id], tenant)
          THEN Step(r, Done(rq, 404, Detail("Not found."), "not_found"))
          ELSE /\ ~ServiceTaskLocked(task_id)
               /\ ~InstanceLocked(serviceTasks[task_id].workflow_instance)
               /\ Step(r,
                     [rq EXCEPT !.pc = "st_txn1",
                                !.bound = ResolveBinding(tenant, serviceTasks[task_id],
                                                         binding[1], binding[2]).id,
                                !.inst = InstanceSnapshot(
                                             serviceTasks[task_id].workflow_instance)])
    /\ UNCHANGED <<db, clock, resumeCalls, outbound>>

ServiceTaskStartCommit(r) ==
    /\ req[r].pc = "st_txn1"
    /\ LET rq == req[r]
           id == rq.target
           task == serviceTasks[id]
           binding == ResolveBinding(rq.tenant, task, rq.ceid, rq.ctid)
       IN \* the catalog row the transaction looked up was deleted before the
          \* task row was saved: the foreign key refuses the update
          \/ /\ StartGateOpen(task.status)
             /\ rq.bound # NoId
             /\ catalog[rq.bound] = DeletedCatalogTask
             /\ Step(r, Done(rq, 500, Detail("IntegrityError"), "integrity_error"))
             /\ UNCHANGED <<serviceTasks, audit, clock, outbound>>
          \/ IF ~StartGateOpen(task.status)
              THEN /\ Step(r,
                         Done(rq, 200, ServiceTaskSerializer(id, task, rq.inst.status), "noop"))
                   /\ UNCHANGED <<serviceTasks, audit, clock, outbound>>
              ELSE IF binding.code = "conflict"
              THEN /\ Step(r,
                         Done(rq, 409, Detail("Catalog binding conflict."), "binding_conflict"))
                   /\ UNCHANGED <<serviceTasks, audit, clock, outbound>>
              ELSE IF binding.code = "missing"
              THEN /\ Step(r,
                         Done(rq, 400, Detail("missing_catalog_binding"), "missing_binding"))
                   /\ UNCHANGED <<serviceTasks, audit, clock, outbound>>
              ELSE /\ serviceTasks' = [serviceTasks EXCEPT ![id] =
                         [task EXCEPT !.catalog_service_task = binding.id,
                                      !.request_payload = coerce_payload(JsonMap("kind")),
                                      !.execution_mode = rq.mode,
                                      !.status = "in_progress",
                                      !.started_at = clock,
                                      !.last_error = ""]]
                   /\ clock' = clock + 1
                   \* after the commit: the audit event, then the outbound POST
                   /\ audit' = create_audit_event(audit, rq.tenant, "service_task_start",
                                                  task.workflow_instance, task.task_id)
                   /\ outbound' = [outbound EXCEPT ![id] = @ + 1]
                   /\ Step(r, [rq EXCEPT !.pc = "st_http", !.bound = binding.id])
    /\ UNCHANGED <<versions, catalog, instances, userTasks, utIdem, cbIdem, issued,
                   resumeCalls>>

\* The outbound call returns and the second transaction locks the task row.
ServiceTaskStartReturn(r, outcome) ==
    /\ req[r].pc = "st_http"
    /\ LET rq == req[r]
           id == rq.target
           error == IF outcome.status_code # 0 /\ outcome.status_code >= 400 /\ outcome.error = ""
                    THEN "service_task_http_error" ELSE outcome.error
       IN IF outcome.raised
          THEN Step(r,
                    Done([rq EXCEPT !.cause = outcome.cause], 500,
                         Detail("Server Error"), "http_raised"))
          ELSE /\ ~ServiceTaskLocked(id)
               /\ ~InstanceLocked(serviceTasks[id].workflow_instance)
               /\ Step(r,
                     [rq EXCEPT !.pc = "st_txn2", !.cause = outcome.cause,
                                !.http = [status_code |-> outcome.status_code,
                                          payload |-> outcome.payload,
                                          error |-> error]])
    /\ UNCHANGED <<db, issued, clock, resumeCalls, outbound>>

ServiceTaskWaiting_completed(task, result_payload, now) ==
    [task EXCEPT !.status = "completed", !.response_payload = result_payload,
                 !.completed_at = now]

\* async success: the task parks until the callback arrives.
ServiceTaskWaiting(task, result_payload, now) ==
    [task EXCEPT !.status = "waiting", !.response_payload = result_payload]

ServiceTaskFailed_unstamped(task, error, result_payload, now) ==
    [task EXCEPT !.status = "failed", !.last_error = error,
                 !.response_payload = result_payload]

\* HTTP error, non-2xx or URL error: the task fails.
ServiceTaskFailed(task, error, result_payload, now) ==
    [task EXCEPT !.status = "failed", !.last_error = error,
                 !.response_payload = result_payload, !.completed_at = now]

ServiceTaskStartSettle(r) ==
    /\ req[r].pc = "st_txn2"
    /\ LET rq == req[r]
           id == rq.target
           task == serviceTasks[id]
           iid == task.workflow_instance
           fresh == instances[iid]
           result_payload == normalize_result_payload(rq.http.payload)
       IN IF rq.http.error # ""
          THEN LET saved == ServiceTaskFailed(task, rq.http.error, result_payload, clock)
               IN /\ serviceTasks' = [serviceTasks EXCEPT ![id] = saved]
                  /\ instances' = [instances EXCEPT ![iid].status = "failed"]
                  /\ clock' = clock + 1
                  /\ Step(r,
                        Done(rq, 502, ServiceTaskSerializer(id, saved, "failed"), "failed"))
                  /\ UNCHANGED <<userTasks, resumeCalls>>
          ELSE IF rq.mode = "async"
          THEN LET saved == ServiceTaskWaiting(task, result_payload, clock)
               IN /\ serviceTasks' = [serviceTasks EXCEPT ![id] = saved]
                  /\ Step(r,
                        Done(rq, 200, ServiceTaskSerializer(id, saved, fresh.status),
                             "waiting"))
                  /\ UNCHANGED <<instances, userTasks, clock, resumeCalls>>
          ELSE \* sync: resume from the instance object loaded by the first transaction
               /\ resumeCalls' = [resumeCalls EXCEPT ![id] = @ + 1]
               /\ \E run_result \in resume_workflow_from_state(
                         DocOfInstance(iid), rq.inst.serialized_state,
                         task.task_id, result_payload) :
                    IF run_result.raised
                    THEN /\ Step(r,
                               Done(rq, 500, Detail("WorkflowRuntimeError"), "resume_raised"))
                         /\ UNCHANGED <<instances, userTasks, serviceTasks, clock>>
                    ELSE LET created == create_service_tasks_for_instance(
                                 serviceTasks, rq.tenant, iid, fresh.definition_version,
                                 run_result.waiting_service_tasks)
                             saved == [task EXCEPT !.status = "completed",
                                                   !.response_payload = result_payload,
                                                   !.completed_at = clock]
                         IN /\ instances' = [instances EXCEPT ![iid] =
                                  [@ EXCEPT !.status = run_result.status,
                                            !.serialized_state = run_result.serialized_state]]
                            /\ userTasks' = create_user_tasks_for_instance(
                                  userTasks, rq.tenant, iid, run_result.waiting_user_tasks)
                            /\ serviceTasks' = [created EXCEPT ![id] = saved]
                            /\ clock' = clock + 1
                            /\ Step(r,
                                  Done(rq, 200,
                                       ServiceTaskSerializer(id, saved, fresh.status),
                                       "completed"))
    /\ UNCHANGED <<versions, catalog, utIdem, cbIdem, audit, issued, outbound>>

(***************************************************************************)
(* ServiceTaskCallbackView.post                                            *)
(***************************************************************************)
\* Bodies and timestamps are byte strings, written as sequences of chunks.
BodyCompleted == << "{status:completed,data:{ok:true}}" >>

BodyFailed == << "{status:FAILED,error:boom}" >>

Bodies == {BodyCompleted, BodyFailed}

Timestamps == { <<"1", "700000000">>, <<"1", "700000001">> }

\* A header that is absent (or empty).
NoHeader == <<>>

SigningKeys == {"key-a", "key-b", "key-x"}

parse_json_body(raw_body) ==
    IF raw_body = BodyCompleted
    THEN [status |-> "completed", data |-> JsonMap("ok"), error |-> ""]
    ELSE IF raw_body = BodyFailed
    THEN \* no "data" and no "result": the whole body is the result
         [status |-> "FAILED", data |-> JsonMap("body"), error |-> "boom"]
    ELSE [status |-> "", data |-> JsonMap("raw"), error |-> ""]

Lower_identity(status) == status

\* str(...).lower()
Lower(status) == IF status = "FAILED" THEN "failed" ELSE status

\* HMAC-SHA256 and SHA-256 over body || timestamp: equal digests for equal
\* (key, message) only.
callback_signature_no_timestamp(raw_key, body, timestamp) == <<raw_key, body>>

callback_signature(raw_key, body, timestamp) == <<raw_key, body \o timestamp>>

callback_request_hash(body, timestamp) == body \o timestamp

\* A signature header holding a byte outside ASCII (header values are
\* decoded as latin-1).
NonAsciiSignature == <<"\\xe9">>

\* hmac.compare_digest on two str: TypeError when one holds a non-ASCII
\* character; the expected signature is a hex digest.
compare_digest(expected_signature, signature) ==
    IF signature = NonAsciiSignature THEN "TypeError"
    ELSE IF expected_signature = signature THEN "equal"
    ELSE "different"

MissingSignatureHeaders(timestamp, signature) ==
    timestamp = NoHeader \/ signature = NoHeader

\* The callback request as received: the three headers, the body and the
\* Idempotency-Key; request.tenant is stamped by the middleware.
CallbackRequest(raw_key, task_id, body, timestamp, signature, key) ==
    [IdleReq EXCEPT !.kind = "service_task_callback", !.tenant = Authenticate(raw_key),
                    !.raw_key = raw_key, !.target = task_id, !.body = body,
                    !.ts = timestamp, !.sig = signature, !.key = key]

\* The header checks, the signature check and the first row lock.
ServiceTaskCallbackVerify(r, received) ==
    /\ LET rq == [received EXCEPT
                     !.pc = "idle",
                     !.hash = callback_request_hash(received.body, received.ts)]
           task_id == rq.target
       IN IF rq.raw_key = ""
          THEN Step(r, Done(rq, 401, Detail("Missing tenant API key."), "missing_key"))
          ELSE IF MissingSignatureHeaders(rq.ts, rq.sig)
          THEN Step(r, Done(rq, 400, Detail("Missing callback signature headers."),
                            "missing_headers"))
          ELSE IF compare_digest(callback_signature(rq.raw_key, rq.body, rq.ts), rq.sig)
                      = "TypeError"
          THEN Step(r, Done(rq, 500, Detail("Server Error"), "compare_raised"))
          ELSE IF compare_digest(callback_signature(rq.raw_key, rq.body, rq.ts), rq.sig)
                      = "different"
          THEN Step(r,
                  Done(rq, 401, Detail("Invalid callback signature."), "bad_signature"))
          ELSE IF ~OwnedBy(serviceTasks[task_id], rq.tenant)
          THEN Step(r, Done(rq, 404, Detail("Not found."), "not_found"))
          ELSE /\ ~ServiceTaskLocked(task_id)
               /\ ~InstanceLocked(serviceTasks[task_id].workflow_instance)
               /\ Step(r,
                     [rq EXCEPT !.pc = "cb_txn1",
                                !.idemSeen = IdemLookup(cbIdem, rq.tenant, rq.key)])
    /\ UNCHANGED <<db, clock, resumeCalls, outbound>>

ServiceTaskCallbackBegin(r, raw_key, task_id, body, timestamp, signature, key) ==
    /\ CanIssue(r)
    /\ issued' = issued + 1
    /\ task_id \in Ids(serviceTasks)
    /\ ServiceTaskCallbackVerify(
           r, CallbackRequest(raw_key, task_id, body, timestamp, signature, key))

CallbackIdempotencyConflict_task_only(record, task_id, request_hash) ==
    record.service_task # task_id

CallbackIdempotencyConflict(record, task_id, request_hash) ==
    \/ record.service_task # task_id
    \/ record.request_hash # request_hash

CallbackRecord(rq, payload) ==
    [ tenant |-> rq.tenant, service_task |-> rq.target, idempotency_key |-> rq.key,
      request_hash |-> rq.hash, response_payload |-> payload ]

\* The first transaction: idempotency replay or conflict, and the answer for
\* a task that is already completed.
ServiceTaskCallbackCheck(r) ==
    /\ req[r].pc = "cb_txn1"
    /\ LET rq == req[r]
           id == rq.target
           task == serviceTasks[id]
           duplicate == rq.key # NoKey /\ IdemLookup(cbIdem, rq.tenant, rq.key) # NoId
       IN IF rq.idemSeen # NoId
          THEN /\ Step(r,
                    IF CallbackIdempotencyConflict(cbIdem[rq.idemSeen], id, rq.hash)
                    THEN Done(rq, 409, Detail("Idempotency key conflict."), "conflict")
                    ELSE Done(rq, 200, cbIdem[rq.idemSeen].response_payload, "replay"))
               /\ UNCHANGED cbIdem
          ELSE IF task.status = "completed"
          THEN LET response_payload ==
                       ServiceTaskSerializer(id, task, instances[task.workflow_instance].status)
               IN IF duplicate
                  THEN /\ Step(r,
                             Done(rq, 500, Detail("IntegrityError"), "integrity_error"))
                       /\ UNCHANGED cbIdem
                  ELSE /\ cbIdem' = IF rq.key # NoKey
                                    THEN Append(cbIdem, CallbackRecord(rq, response_payload))
                                    ELSE cbIdem
                       /\ Step(r,
                             Done(rq, 200, response_payload, "already_completed"))
          ELSE /\ Step(r, [rq EXCEPT !.pc = "cb_parsed", !.idemSeen = NoId,
                                           !.seen = task.status])
               /\ UNCHANGED cbIdem
    /\ UNCHANGED <<versions, catalog, instances, userTasks, serviceTasks, utIdem, audit,
                   issued, clock, resumeCalls, outbound>>

\* The second transaction locks the task row again.
ServiceTaskCallbackLock(r) ==
    /\ req[r].pc = "cb_parsed"
    /\ ~ServiceTaskLocked(req[r].target)
    /\ ~InstanceLocked(serviceTasks[req[r].target].workflow_instance)
    /\ Step(r, [req[r] EXCEPT !.pc = "cb_txn2"])
    /\ UNCHANGED <<db, issued, clock, resumeCalls, outbound>>

ServiceTaskCallbackApply(r) ==
    /\ req[r].pc = "cb_txn2"
    /\ LET rq == req[r]
           id == rq.target
           task == serviceTasks[id]
           iid == task.workflow_instance
           instance == instances[iid]
           callback_payload == parse_json_body(rq.body)
           callback_status == Lower(callback_payload.status)
           result_data == callback_payload.data
           result_payload == normalize_result_payload(result_data)
           duplicate == rq.key # NoKey /\ IdemLookup(cbIdem, rq.tenant, rq.key) # NoId
           event(log) == create_audit_event(log, rq.tenant, "service_task_callback",
                                            iid, task.task_id)
       IN IF callback_status = "failed"
          THEN LET saved == [task EXCEPT !.status = "failed",
                                         !.last_error = callback_payload.error,
                                         !.response_payload = result_payload,
                                         !.completed_at = clock]
                   response_payload == ServiceTaskSerializer(id, saved, "failed")
               IN /\ UNCHANGED resumeCalls
                  /\ IF duplicate
                     THEN /\ Step(r,
                                Done(rq, 500, Detail("IntegrityError"), "integrity_error"))
                          /\ UNCHANGED <<instances, userTasks, serviceTasks, cbIdem, audit,
                                         clock>>
                     ELSE /\ serviceTasks' = [serviceTasks EXCEPT ![id] = saved]
                          /\ instances' = [instances EXCEPT ![iid].status = "failed"]
                          /\ clock' = clock + 1
                          /\ audit' = event(audit)
                          /\ cbIdem' = IF rq.key # NoKey
                                       THEN Append(cbIdem, CallbackRecord(rq, response_payload))
                                       ELSE cbIdem
                          /\ Step(r,
                                Done(rq, 200, response_payload, "failed"))
                          /\ UNCHANGED userTasks
          ELSE /\ resumeCalls' = [resumeCalls EXCEPT ![id] = @ + 1]
               /\ \E run_result \in resume_workflow_from_state(
                         DocOfInstance(iid), instance.serialized_state,
                         task.task_id, result_payload) :
                    IF run_result.raised
                    THEN /\ Step(r,
                               Done(rq, 500, Detail("WorkflowRuntimeError"), "resume_raised"))
                         /\ UNCHANGED <<instances, userTasks, serviceTasks, cbIdem, audit,
                                        clock>>
                    ELSE IF duplicate
                    THEN /\ Step(r,
                               Done(rq, 500, Detail("IntegrityError"), "integrity_error"))
                         /\ UNCHANGED <<instances, userTasks, serviceTasks, cbIdem, audit,
                                        clock>>
                    ELSE LET created == create_service_tasks_for_instance(
                                 serviceTasks, rq.tenant, iid, instance.definition_version,
                                 run_result.waiting_service_tasks)
                             saved == [task EXCEPT !.status = "completed",
                                                   !.response_payload = result_payload,
                                                   !.completed_at = clock]
                             response_payload ==
                                 ServiceTaskSerializer(id, saved, run_result.status)
                         IN /\ instances' = [instances EXCEPT ![iid] =
                                  [@ EXCEPT !.status = run_result.status,
                                            !.serialized_state = run_result.serialized_state]]
                            /\ userTasks' = create_user_tasks_for_instance(
                                  userTasks, rq.tenant, iid, run_result.waiting_user_tasks)
                            /\ serviceTasks' = [created EXCEPT ![id] = saved]
                            /\ clock' = clock + 1
                            /\ audit' = event(audit)
                            /\ cbIdem' = IF rq.key # NoKey
                                         THEN Append(cbIdem,
                                                     CallbackRecord(rq, response_payload))
                                         ELSE cbIdem
                            /\ Step(r,
                                  Done(rq, 200, response_payload, "completed"))
    /\ UNCHANGED <<versions, catalog, utIdem, issued, outbound>>

(***************************************************************************)
(* Read endpoints: WorkflowInstanceDetailView,                             *)
(* WorkflowDefinitionVersionDetailView, UserTaskListView,                  *)
(* ServiceTaskListView, AuditEventListView.                                *)
(***************************************************************************)
RECURSIVE OrderById(_)
OrderById(S) ==
    IF S = {} THEN <<>> ELSE <<MinOf(S)>> \o OrderById(S \ {MinOf(S)})

Reverse(s) == [i \in 1..Len(s) |-> s[Len(s) + 1 - i]]

WorkflowInstanceDetailSerializer(id) ==
    LET obj == instances[id]
        user_ids == OrderById({i \in Ids(userTasks) :
                        /\ userTasks[i].workflow_instance = id
                        /\ userTasks[i].tenant = obj.tenant
                        /\ userTasks[i].status = "pending"})
        service_ids == OrderById({i \in Ids(serviceTasks) :
                        /\ serviceTasks[i].workflow_instance = id
                        /\ serviceTasks[i].tenant = obj.tenant
                        /\ serviceTasks[i].status \in {"pending", "in_progress", "waiting"}})
    IN [ id |-> id, status |-> obj.status,
         active_user_tasks |->
             [k \in 1..Len(user_ids) |->
                 UserTaskSerializer(user_ids[k], userTasks[user_ids[k]], obj.status)],
         active_service_tasks |->
             [k \in 1..Len(service_ids) |->
                 ServiceTaskSerializer(service_ids[k], serviceTasks[service_ids[k]],
                                       obj.status)] ]

WorkflowInstanceDetail(r, tenant, instance_id) ==
    /\ CanIssue(r)
    /\ issued' = issued + 1
    /\ instance_id \in Ids(instances)
    /\ LET rq == [IdleReq EXCEPT !.kind = "instance_detail", !.tenant = tenant,
                                 !.target = instance_id]
       IN Step(r, IF ~OwnedBy(instances[instance_id], tenant)
                  THEN Done(rq, 404, Detail("Not found."), "not_found")
                  ELSE Done(rq, 200, WorkflowInstanceDetailSerializer(instance_id), "found"))
    /\ UNCHANGED <<db, clock, resumeCalls, outbound>>

WorkflowDefinitionVersionDetail(r, tenant, process_key, version) ==
    /\ CanIssue(r)
    /\ issued' = issued + 1
    /\ LET rq == [IdleReq EXCEPT !.kind = "version_detail", !.tenant = tenant]
           found == {v \in Ids(versions) : /\ OwnedBy(versions[v], tenant)
                                           /\ versions[v].process_key = process_key
                                           /\ versions[v].version = version}
       IN Step(r, IF found = {}
                  THEN Done(rq, 404, Detail("Not found."), "not_found")
                  ELSE LET version_entry == versions[MinOf(found)]
                       IN Done([rq EXCEPT !.target = MinOf(found)], 200,
                               [ process_key |-> version_entry.process_key,
                                 version |-> version_entry.version,
                                 catalog_binding_placeholders |->
                                     version_entry.catalog_binding_placeholders ],
                               "found"))
    /\ UNCHANGED <<db, clock, resumeCalls, outbound>>

\* workflow_instance_id = NoId: the query parameter is absent.
UserTaskList(r, tenant, workflow_instance_id) ==
    /\ CanIssue(r)
    /\ issued' = issued + 1
    /\ LET rq == [IdleReq EXCEPT !.kind = "user_task_list", !.tenant = tenant,
                                 !.target = workflow_instance_id]
           ids == OrderById({i \in Ids(userTasks) :
                      /\ OwnedBy(userTasks[i], tenant)
                      /\ userTasks[i].status = "pending"
                      /\ \/ workflow_instance_id = NoId
                         \/ userTasks[i].workflow_instance = workflow_instance_id})
       IN Step(r, Done(rq, 200,
                       [items |-> [k \in 1..Len(ids) |->
                           UserTaskSerializer(ids[k], userTasks[ids[k]],
                               instances[userTasks[ids[k]].workflow_instance].status)]],
                       "list"))
    /\ UNCHANGED <<db, clock, resumeCalls, outbound>>

ServiceTaskList(r, tenant, workflow_instance_id) ==
    /\ CanIssue(r)
    /\ issued' = issued + 1
    /\ LET rq == [IdleReq EXCEPT !.kind = "service_task_list", !.tenant = tenant,
                                 !.target = workflow_instance_id]
           ids == OrderById({i \in Ids(serviceTasks) :
                      /\ OwnedBy(serviceTasks[i], tenant)
                      /\ \/ workflow_instance_id = NoId
                         \/ serviceTasks[i].workflow_instance = workflow_instance_id})
       IN Step(r, Done(rq, 200,
                       [items |-> [k \in 1..Len(ids) |->
                           ServiceTaskSerializer(ids[k], serviceTasks[ids[k]],
                               instances[serviceTasks[ids[k]].workflow_instance].status)]],
                       "list"))
    /\ UNCHANGED <<db, clock, resumeCalls, outbound>>

AuditEventSerializer(id, event) ==
    [ id |-> id, event_type |-> event.event_type,
      workflow_instance_id |-> event.workflow_instance, task_id |-> event.task_id ]

AuditEventList(r, tenant, workflow_instance_id) ==
    /\ CanIssue(r)
    /\ issued' = issued + 1
    /\ LET rq == [IdleReq EXCEPT !.kind = "audit_event_list", !.tenant = tenant,
                                 !.target = workflow_instance_id]
           ids == Reverse(OrderById({i \in Ids(audit) :
                      /\ OwnedBy(audit[i], tenant)
                      /\ \/ workflow_instance_id = NoId
                         \/ audit[i].workflow_instance = workflow_instance_id}))
       IN Step(r, Done(rq, 200,
                       [items |-> [k \in 1..Len(ids) |->
                                      AuditEventSerializer(ids[k], audit[ids[k]])]],
                       "list"))
    /\ UNCHANGED <<db, clock, resumeCalls, outbound>>

(***************************************************************************)
(* Next-state relation.                                                    *)
(***************************************************************************)
Next ==
    \/ \E r \in ReqIds, t \in Tenants, k \in ProcessKeys :
           WorkflowInstanceStart(r, t, k, 1)
    \/ \E r \in ReqIds, t \in Tenants, id \in Ids(userTasks),
          actor \in Actors, action \in Actions, key \in IdempotencyKeys :
           UserTaskCompleteBegin(r, t, id, actor, action, key)
    \/ \E r \in ReqIds : UserTaskCompleteCommit(r)
    \/ \E r \in ReqIds, t \in Tenants, id \in Ids(serviceTasks),
          mode \in ExecutionModes, binding \in BindingInputs :
           ServiceTaskStartBegin(r, t, id, mode, binding)
    \/ \E r \in ReqIds : ServiceTaskStartCommit(r)
    \/ \E r \in ReqIds, outcome \in HttpOutcomes : ServiceTaskStartReturn(r, outcome)
    \/ \E r \in ReqIds : ServiceTaskStartSettle(r)
    \/ \E r \in ReqIds, t \in Tenants, id \in Ids(serviceTasks), body \in Bodies,
          ts \in {<<"1", "700000000">>}, sk \in SigningKeys, sts \in Timestamps,
          key \in IdempotencyKeys :
           ServiceTaskCallbackBegin(r, RawKeyOf(t), id, body, ts,
                                    callback_signature(sk, body, sts), key)
    \/ \E r \in ReqIds : ServiceTaskCallbackCheck(r)
    \/ \E r \in ReqIds : ServiceTaskCallbackLock(r)
    \/ \E r \in ReqIds : ServiceTaskCallbackApply(r)
    \/ \E r \in ReqIds, t \in Tenants, id \in Ids(instances) :
           WorkflowInstanceDetail(r, t, id)
    \/ \E r \in ReqIds, t \in Tenants, k \in ProcessKeys :
           WorkflowDefinitionVersionDetail(r, t, k, 1)
    \/ \E r \in ReqIds, t \in Tenants, id \in {NoId} \cup Ids(instances) :
           UserTaskList(r, t, id)
    \/ \E r \in ReqIds, t \in Tenants, id \in {NoId} \cup Ids(instances) :
           ServiceTaskList(r, t, id)
    \/ \E r \in ReqIds, t \in Tenants, id \in {NoId} \cup Ids(instances) :
           AuditEventList(r, t, id)

Spec == Init /\ [][Next]_vars

(***************************************************************************)
(* The callback endpoint with every header combination.  The request is    *)
(* received in one step and verified in the next, so that what was         *)
(* received can be compared with how it was answered; the two steps touch  *)
(* no shared state, and requests are taken through them one at a time.     *)
(***************************************************************************)
CallbackRawKeys == {"", "key-a", "key-b"}

\* The second body is the first followed by the first byte of the timestamp.
CallbackBodies == {BodyCompleted, BodyCompleted \o <<"1">>}

CallbackTimestamps == {NoHeader, <<"1", "700000000">>, <<"700000000">>}

CallbackKeys == {"k1"}

CallbackSignatures ==
    {NoHeader, NonAsciiSignature}
    \cup {callback_signature(k, b, t) :
             k \in CallbackRawKeys \ {""}, b \in CallbackBodies,
             t \in CallbackTimestamps \ {NoHeader}}

ServiceTaskCallbackReceive(r, raw_key, task_id, body, timestamp, signature, key) ==
    /\ CanIssue(r)
    /\ \A q \in ReqIds : req[q].pc # "cb_recv"
    /\ issued' = issued + 1
    /\ task_id \in Ids(serviceTasks)
    /\ req' = [req EXCEPT ![r] =
                  [CallbackRequest(raw_key, task_id, body, timestamp, signature, key)
                      EXCEPT !.pc = "cb_recv"]]
    /\ UNCHANGED <<db, lastResponse, clock, resumeCalls, outbound>>

ServiceTaskCallbackVerified(r) ==
    /\ req[r].pc = "cb_recv"
    /\ ServiceTaskCallbackVerify(r, req[r])
    /\ UNCHANGED issued

CallbackNext ==
    \/ \E r \in ReqIds, t \in Tenants, k \in ProcessKeys :
           WorkflowInstanceStart(r, t, k, 1)
    \/ \E r \in ReqIds, raw_key \in CallbackRawKeys, id \in Ids(serviceTasks),
          body \in CallbackBodies, ts \in CallbackTimestamps,
          sig \in CallbackSignatures, key \in CallbackKeys :
           ServiceTaskCallbackReceive(r, raw_key, id, body, ts, sig, key)
    \/ \E r \in ReqIds : ServiceTaskCallbackVerified(r)
    \/ \E r \in ReqIds : ServiceTaskCallbackCheck(r)
    \/ \E r \in ReqIds : ServiceTaskCallbackLock(r)
    \/ \E r \in ReqIds : ServiceTaskCallbackApply(r)

CallbackSpec == Init /\ [][CallbackNext]_vars

(***************************************************************************)
(* WorkflowDefinitionUploadView.post                                       *)
(*                                                                         *)
(* A WorkflowDefinition is identified by (tenant, process_key) and is      *)
(* carried by its version rows; the doc of a row stands for its bpmn_xml.  *)
(* The transaction runs at READ COMMITTED: it takes no row lock, reads     *)
(* the latest version and inserts the next one.  The read and the insert   *)
(* are separate steps.  A transaction that inserted the definition row     *)
(* holds its unique key until it commits, so another upload of the same    *)
(* new process key waits in get_or_create.  The audit event is written     *)
(* right after the transaction and is taken with its commit.               *)
(***************************************************************************)
NoProcessKey == ""

\* The uploaded files: two valid documents, one without a process element
\* and one with a timer event.
UploadFiles == {"leave_request.bpmn", "payout.bpmn", "no_process.bpmn", "timer.bpmn"}

\* bpmn.validate_bpmn_xml: the snapshot of a valid document, or its errors.
validate_bpmn_xml(xml_text) ==
    IF xml_text = "leave_request.bpmn"
    THEN [ errors |-> {}, process_key |-> "leave_request_v1", doc |-> LeaveRequest,
           catalog_binding_placeholders |-> <<>> ]
    ELSE IF xml_text = "payout.bpmn"
    THEN [ errors |-> {}, process_key |-> "payout_v1", doc |-> Payout,
           catalog_binding_placeholders |-> <<ReceiptPlaceholder>> ]
    ELSE IF xml_text = "timer.bpmn"
    THEN [ errors |-> {"unsupported_bpmn_element"}, process_key |-> NoProcessKey,
           doc |-> Payout, catalog_binding_placeholders |-> <<>> ]
    ELSE [ errors |-> {"missing_process_key"}, process_key |-> NoProcessKey,
           doc |-> Payout, catalog_binding_placeholders |-> <<>> ]

UploadErrorCode(errors) ==
    IF "unsupported_bpmn_element" \in errors
    THEN "unsupported_bpmn_element" ELSE "invalid_bpmn"

\* The version rows of one definition.
VersionsOf(table, tenant, process_key) ==
    {v \in Ids(table) : /\ OwnedBy(table[v], tenant)
                        /\ table[v].process_key = process_key}

MaxOf(S) == CHOOSE x \in S : \A y \in S : y <= x

\* order_by("-version").first(), then latest.version + 1 if latest else 1
NextVersion(table, tenant, process_key) ==
    LET stored == {table[v].version : v \in VersionsOf(table, tenant, process_key)}
    IN IF stored = {} THEN 1 ELSE MaxOf(stored) + 1

\* Another transaction has inserted this definition and not yet committed.
DefinitionInsertPending(tenant, process_key) ==
    \E q \in ReqIds : /\ req[q].pc = "up_txn"
                      /\ req[q].created
                      /\ req[q].tenant = tenant
                      /\ req[q].process_key = process_key

UniqueVersionViolated_never(table, row) == FALSE

\* uniq_workflow_definition_version_per_tenant
UniqueVersionViolated(table, row) ==
    \E v \in VersionsOf(table, row.tenant, row.process_key) :
        table[v].version = row.version

\* Validation, get_or_create of the definition and the read of the latest
\* version.
WorkflowDefinitionUploadBegin(r, tenant, upload) ==
    /\ CanIssue(r)
    /\ issued' = issued + 1
    /\ LET snapshot == validate_bpmn_xml(upload)
           rq == [IdleReq EXCEPT !.kind = "definition_upload", !.tenant = tenant,
                                 !.upload = upload,
                                 !.process_key = snapshot.process_key]
       IN IF snapshot.errors # {}
          THEN Step(r, Done(rq, 400, [code |-> UploadErrorCode(snapshot.errors)],
                            "invalid_bpmn"))
          ELSE /\ ~DefinitionInsertPending(tenant, snapshot.process_key)
               /\ Step(r, [rq EXCEPT
                     !.pc = "up_txn",
                     !.created = VersionsOf(versions, tenant, snapshot.process_key) = {},
                     !.version_value =
                         NextVersion(versions, tenant, snapshot.process_key)])
    /\ UNCHANGED <<db, clock, resumeCalls, outbound>>

\* The insert of the version row, the commit, the audit event and the
\* response.  A violated unique constraint raises IntegrityError, which the
\* handler does not catch: the transaction is rolled back.
WorkflowDefinitionUploadCommit(r) ==
    /\ req[r].pc = "up_txn"
    /\ LET rq == req[r]
           snapshot == validate_bpmn_xml(rq.upload)
           version_entry ==
               [ tenant |-> rq.tenant, process_key |-> snapshot.process_key,
                 version |-> rq.version_value, doc |-> snapshot.doc,
                 catalog_binding_placeholders |->
                     snapshot.catalog_binding_placeholders ]
       IN IF UniqueVersionViolated(versions, version_entry)
          THEN /\ Step(r, Done(rq, 500, Detail("IntegrityError"), "integrity_error"))
               /\ UNCHANGED <<versions, audit>>
          ELSE /\ versions' = Append(versions, version_entry)
               /\ audit' = create_audit_event(audit, rq.tenant, "definition_upload",
                                              NoId, "")
               /\ Step(r, Done([rq EXCEPT !.target = Len(versions) + 1], 201,
                               [ process_key |-> version_entry.process_key,
                                 version |-> version_entry.version,
                                 catalog_binding_placeholders |->
                                     version_entry.catalog_binding_placeholders ],
                               "created"))
    /\ UNCHANGED <<catalog, instances, userTasks, serviceTasks, utIdem, cbIdem,
                   issued, clock, resumeCalls, outbound>>

UploadVersions == 1..3

UploadNext ==
    \/ \E r \in ReqIds, t \in Tenants, upload \in UploadFiles :
           WorkflowDefinitionUploadBegin(r, t, upload)
    \/ \E r \in ReqIds : WorkflowDefinitionUploadCommit(r)
    \/ \E r \in ReqIds, t \in Tenants, k \in ProcessKeys, v \in UploadVersions :
           WorkflowDefinitionVersionDetail(r, t, k, v)
    \/ \E r \in ReqIds, t \in Tenants, k \in ProcessKeys, v \in UploadVersions :
           WorkflowInstanceStart(r, t, k, v)

UploadSpec == Init /\ [][UploadNext]_vars

(***************************************************************************)
(* A process with a parallel gateway: two service tasks are ready at once  *)
(* and the process ends when both are completed.  The deployment is the    *)
(* one of Init with this definition uploaded as well; the service tasks    *)
(* are started and called back without an Idempotency-Key.                 *)
(***************************************************************************)
FanoutTasks == {"ServiceTask_Left", "ServiceTask_Right"}

Fanout ==
    [ process_key |-> "fanout_v1",
      order   |-> <<"ServiceTask_Left", "ServiceTask_Right">>,
      initial |-> FanoutTasks,
      succ    |-> [t \in FanoutTasks |-> {}],
      type    |-> [t \in FanoutTasks |-> "ServiceTask"],
      manual  |-> {},
      script  |-> [t \in FanoutTasks |-> "none"],
      name    |-> [t \in FanoutTasks |-> t] ]

ParallelInit ==
    /\ versions =
         << [tenant |-> "tA", process_key |-> "leave_request_v1", version |-> 1,
             doc |-> LeaveRequest, catalog_binding_placeholders |-> <<>>],
            [tenant |-> "tA", process_key |-> "payout_v1", version |-> 1,
             doc |-> Payout, catalog_binding_placeholders |-> <<ReceiptPlaceholder>>],
            [tenant |-> "tA", process_key |-> "fanout_v1", version |-> 1,
             doc |-> Fanout, catalog_binding_placeholders |-> <<>>] >>
    /\ catalog =
         << [tenant |-> "tA", entry |-> "cap_leave", external_id |-> "send_email"],
            [tenant |-> "tA", entry |-> "cap_pay", external_id |-> "receipt"],
            [tenant |-> "tB", entry |-> "cap_leave", external_id |-> "send_email"] >>
    /\ instances = <<>>
    /\ userTasks = <<>>
    /\ serviceTasks = <<>>
    /\ utIdem = <<>>
    /\ cbIdem = <<>>
    /\ audit = <<>>
    /\ req = [r \in ReqIds |-> IdleReq]
    /\ lastResponse = IdleReq
    /\ issued = 0
    /\ clock = 1
    /\ resumeCalls = [id \in ServiceTaskIds |-> 0]
    /\ outbound = [id \in ServiceTaskIds |-> 0]

ParallelNext ==
    \/ \E r \in ReqIds : WorkflowInstanceStart(r, "tA", "fanout_v1", 1)
    \/ \E r \in ReqIds, id \in Ids(serviceTasks), mode \in ExecutionModes :
           ServiceTaskStartBegin(r, "tA", id, mode, <<"cap_leave", "send_email">>)
    \/ \E r \in ReqIds : ServiceTaskStartCommit(r)
    \/ \E r \in ReqIds, outcome \in HttpOutcomes : ServiceTaskStartReturn(r, outcome)
    \/ \E r \in ReqIds : ServiceTaskStartSettle(r)
    \/ \E r \in ReqIds, id \in Ids(serviceTasks), body \in Bodies :
           ServiceTaskCallbackBegin(r, RawKeyOf("tA"), id, body, <<"1", "700000000">>,
               callback_signature(RawKeyOf("tA"), body, <<"1", "700000000">>), NoKey)
    \/ \E r \in ReqIds : ServiceTaskCallbackCheck(r)
    \/ \E r \in ReqIds : ServiceTaskCallbackLock(r)
    \/ \E r \in ReqIds : ServiceTaskCallbackApply(r)

ParallelSpec == ParallelInit /\ [][ParallelNext]_vars

(***************************************************************************)
(* The interpreter on processes with script tasks and with tasks that park *)
(* without being surfaced.  The deployment holds five versions of two      *)
(* processes; version n carries the n-th kind of script source in its      *)
(* ScriptTask.  Instances are started, and their service tasks started and *)
(* called back, as in ParallelSpec.                                        *)
(***************************************************************************)
\* The source of a ScriptTask: one that runs, none at all, only blanks, one
\* whose compile result lists errors, one for which compile_restricted
\* raises SyntaxError, one that raises when executed.
ScriptKinds ==
    <<"ok", "missing", "empty", "compile_error", "compile_raises", "runtime_error">>

IntakeTasks ==
    {"Task_Open", "Task_Stamp", "ScriptTask_Check", "Task_Close", "UserTask_Review",
     "SendTask_Notify", "ExternalTask_Job"}

\* A parallel gateway with four branches: Task_Open then Task_Stamp then
\* ExternalTask_Job; ScriptTask_Check then SendTask_Notify; Task_Close;
\* UserTask_Review.
Intake(kind) ==
    [ process_key |-> "intake_v1",
      order   |-> <<"Task_Open", "Task_Stamp", "ExternalTask_Job", "ScriptTask_Check",
                    "SendTask_Notify", "Task_Close", "UserTask_Review">>,
      initial |-> {"Task_Open", "ScriptTask_Check", "Task_Close", "UserTask_Review"},
      succ    |-> [t \in IntakeTasks |->
                     IF t = "Task_Open" THEN {"Task_Stamp"}
                     ELSE IF t = "Task_Stamp" THEN {"ExternalTask_Job"}
                     ELSE IF t = "ScriptTask_Check" THEN {"SendTask_Notify"} ELSE {}],
      type    |-> [t \in IntakeTasks |->
                     IF t \in {"Task_Open", "Task_Stamp", "Task_Close"} THEN "NoneTask"
                     ELSE IF t = "ScriptTask_Check" THEN "ScriptTask"
                     ELSE IF t = "UserTask_Review" THEN "UserTask"
                     ELSE IF t = "SendTask_Notify" THEN "SendTask" ELSE "ExternalTask"],
      manual  |-> {},
      script  |-> [t \in IntakeTasks |-> IF t = "ScriptTask_Check" THEN kind ELSE "none"],
      name    |-> [t \in IntakeTasks |-> t] ]

\* Payout with the given source in ScriptTask_Log.
PayoutWith(kind) == [Payout EXCEPT !.script["ScriptTask_Log"] = kind]

EngineProcessKeys == {"intake_v1", "payout_v1"}

EngineInit ==
    /\ versions =
         [n \in 1..Len(ScriptKinds) |->
            [tenant |-> "tA", process_key |-> "intake_v1", version |-> n,
             doc |-> Intake(ScriptKinds[n]), catalog_binding_placeholders |-> <<>>]]
         \o
         [n \in 1..Len(ScriptKinds) |->
            [tenant |-> "tA", process_key |-> "payout_v1", version |-> n,
             doc |-> PayoutWith(ScriptKinds[n]),
             catalog_binding_placeholders |-> <<ReceiptPlaceholder>>]]
    /\ catalog =
         << [tenant |-> "tA", entry |-> "cap_leave", external_id |-> "send_email"],
            [tenant |-> "tA", entry |-> "cap_pay", external_id |-> "receipt"],
            [tenant |-> "tB", entry |-> "cap_leave", external_id |-> "send_email"] >>
    /\ instances = <<>>
    /\ userTasks = <<>>
    /\ serviceTasks = <<>>
    /\ utIdem = <<>>
    /\ cbIdem = <<>>
    /\ audit = <<>>
    /\ req = [r \in ReqIds |-> IdleReq]
    /\ lastResponse = IdleReq
    /\ issued = 0
    /\ clock = 1
    /\ resumeCalls = [id \in ServiceTaskIds |-> 0]
    /\ outbound = [id \in ServiceTaskIds |-> 0]

EngineNext ==
    \/ \E r \in ReqIds, process_key \in EngineProcessKeys, n \in 1..Len(ScriptKinds) :
           WorkflowInstanceStart(r, "tA", process_key, n)
    \/ \E r \in ReqIds, id \in Ids(serviceTasks), mode \in ExecutionModes :
           ServiceTaskStartBegin(r, "tA", id, mode, <<"cap_leave", "send_email">>)
    \/ \E r \in ReqIds : ServiceTaskStartCommit(r)
    \/ \E r \in ReqIds, outcome \in HttpOutcomes : ServiceTaskStartReturn(r, outcome)
    \/ \E r \in ReqIds : ServiceTaskStartSettle(r)
    \/ \E r \in ReqIds, id \in Ids(serviceTasks), body \in Bodies :
           ServiceTaskCallbackBegin(r, RawKeyOf("tA"), id, body, <<"1", "700000000">>,
               callback_signature(RawKeyOf("tA"), body, <<"1", "700000000">>), NoKey)
    \/ \E r \in ReqIds : ServiceTaskCallbackCheck(r)
    \/ \E r \in ReqIds : ServiceTaskCallbackLock(r)
    \/ \E r \in ReqIds : ServiceTaskCallbackApply(r)

EngineSpec == EngineInit /\ [][EngineNext]_vars

(***************************************************************************)
(* The interpreter by itself: start_workflow_from_definition and           *)
(* resume_workflow_from_state applied to the definitions of EngineInit,    *)
(* with and without a completed task.  instances holds the status and the  *)
(* serialized state a caller stores after each run, lastResponse the       *)
(* WorkflowRunResult of the last call.                                     *)
(***************************************************************************)
TaskResults == {EmptyMap, JsonMap("done")}

\* The record of a call: which function, on which stored state, its result.
EngineCall(kind, id, run_result) ==
    Done([IdleReq EXCEPT !.kind = kind, !.target = id], 0, run_result,
         IF run_result.raised THEN "raised" ELSE run_result.status)

\* What a caller stores of a run.
StoredRun(row, run_result) ==
    [row EXCEPT !.status = run_result.status,
                !.serialized_state = run_result.serialized_state]

EngineStart(process_key, n) ==
    /\ Len(instances) < MaxInstances
    /\ \E v \in Ids(versions) :
          /\ versions[v].process_key = process_key /\ versions[v].version = n
          /\ LET run_result == start_workflow_from_definition(versions[v].doc)
                 id == Len(instances) + 1
             IN /\ lastResponse' = EngineCall("engine_start", id, run_result)
                /\ instances' =
                      IF run_result.raised THEN instances
                      ELSE Append(instances,
                             StoredRun([tenant |-> "tA", definition_version |-> v,
                                        status |-> "", serialized_state |-> <<>>],
                                       run_result))
    /\ UNCHANGED <<versions, catalog, userTasks, serviceTasks, utIdem, cbIdem, audit,
                   req, issued, clock, resumeCalls, outbound>>

EngineResume(id, completed_task_id, task_result) ==
    /\ id \in Ids(instances)
    /\ \E run_result \in resume_workflow_from_state(
              DocOfInstance(id), instances[id].serialized_state,
              completed_task_id, task_result) :
          /\ lastResponse' = EngineCall(IF completed_task_id = NoTask
                                        THEN "engine_advance" ELSE "engine_resume",
                                        id, run_result)
          /\ instances' = IF run_result.raised THEN instances
                          ELSE [instances EXCEPT ![id] = StoredRun(@, run_result)]
    /\ UNCHANGED <<versions, catalog, userTasks, serviceTasks, utIdem, cbIdem, audit,
                   req, issued, clock, resumeCalls, outbound>>

ResumeNext ==
    \/ \E process_key \in EngineProcessKeys, n \in 1..Len(ScriptKinds) :
           EngineStart(process_key, n)
    \/ \E id \in 1..MaxInstances, t \in IntakeTasks \cup PayoutTasks,
           task_result \in TaskResults :
           EngineResume(id, t, task_result)
    \/ \E id \in 1..MaxInstances : EngineResume(id, NoTask, EmptyMap)

ResumeSpec == EngineInit /\ [][ResumeNext]_vars

(***************************************************************************)
(* _find_catalog_binding_from_definition by itself: the payout definition  *)
(* carries any list of up to two placeholders, and the function is applied *)
(* to every element id and element name, empty ones included.              *)
(***************************************************************************)
PayPlaceholder ==
    [ element_id |-> "ServiceTask_Pay", element_name |-> "Pay",
      catalog_entry_id |-> "cap_leave", service_task_id |-> "send_email" ]

\* A placeholder whose attributes name no service task.
IncompletePlaceholder ==
    [ element_id |-> "ServiceTask_Pay", element_name |-> "Pay",
      catalog_entry_id |-> "cap_pay", service_task_id |-> "" ]

Placeholders == {ReceiptPlaceholder, PayPlaceholder, IncompletePlaceholder}

MaxPlaceholders == 2

PlaceholderLists ==
    UNION { [1..n -> Placeholders] : n \in 0..MaxPlaceholders }

ElementIds == {"", "ServiceTask_Pay", "ServiceTask_Receipt", "ServiceTask_Audit"}

ElementNames == {"", "Pay", "ServiceTask_Receipt", "Audit"}

BindingInit ==
    /\ \E placeholders \in PlaceholderLists :
          versions =
            << [tenant |-> "tA", process_key |-> "leave_request_v1", version |-> 1,
                doc |-> LeaveRequest, catalog_binding_placeholders |-> <<>>],
               [tenant |-> "tA", process_key |-> "payout_v1", version |-> 1,
                doc |-> Payout, catalog_binding_placeholders |-> placeholders] >>
    /\ catalog =
         << [tenant |-> "tA", entry |-> "cap_leave", external_id |-> "send_email"],
            [tenant |-> "tA", entry |-> "cap_pay", external_id |-> "receipt"],
            [tenant |-> "tB", entry |-> "cap_leave", external_id |-> "send_email"] >>
    /\ instances = <<>>
    /\ userTasks = <<>>
    /\ serviceTasks = <<>>
    /\ utIdem = <<>>
    /\ cbIdem = <<>>
    /\ audit = <<>>
    /\ req = [r \in ReqIds |-> IdleReq]
    /\ lastResponse = IdleReq
    /\ issued = 0
    /\ clock = 1
    /\ resumeCalls = [id \in ServiceTaskIds |-> 0]
    /\ outbound = [id \in ServiceTaskIds |-> 0]

\* One call of the function; lastResponse records its arguments and result.
FindCatalogBinding(tenant, definition_version, element_id, element_name) ==
    /\ LET catalog_task == find_catalog_binding_from_definition(
                               tenant, definition_version, element_id, element_name)
       IN lastResponse' =
            Done([IdleReq EXCEPT !.kind = "find_binding", !.tenant = tenant,
                                 !.target = definition_version],
                 0,
                 [element_id |-> element_id, element_name |-> element_name,
                  catalog_task |-> catalog_task],
                 IF catalog_task = NoId THEN "unbound" ELSE "bound")
    /\ UNCHANGED <<db, req, issued, clock, resumeCalls, outbound>>

BindingNext ==
    \E element_id \in ElementIds, element_name \in ElementNames :
        FindCatalogBinding("tA", 2, element_id, element_name)

BindingSpec == BindingInit /\ [][BindingNext]_vars

(***************************************************************************)
(* discovery.py: sync_discovery_for_tenant replaces the tenant's catalog   *)
(* in one transaction.  Tenant tA starts without a catalog; the payout     *)
(* definition carries a placeholder for each of its service tasks.         *)
(***************************************************************************)
\* payload["catalog"]: (catalog entry id, service task id) pairs.
SyncPayloads ==
    { <<>>,
      << <<"cap_leave", "send_email">> >>,
      << <<"cap_leave", "send_email">>, <<"cap_pay", "receipt">> >> }

Referenced_never(tenant) == FALSE

\* on_delete=models.PROTECT: a ServiceTask references a catalog row of the
\* tenant.
Referenced(tenant) ==
    \E id \in Ids(serviceTasks) :
        /\ serviceTasks[id].catalog_service_task # NoId
        /\ catalog[serviceTasks[id].catalog_service_task].tenant = tenant

DiscoverySync(tenant, payload) ==
    /\ issued < MaxRequests
    /\ issued' = issued + 1
    /\ LET rq == [IdleReq EXCEPT !.kind = "discovery_sync", !.tenant = tenant]
       IN IF Referenced(tenant)
          THEN \* the delete raises and the transaction is rolled back
               /\ catalog' = catalog
               /\ lastResponse' = Done(rq, 500, payload, "protected")
          ELSE /\ catalog' =
                     [c \in Ids(catalog) |->
                        IF catalog[c].tenant = tenant THEN DeletedCatalogTask
                        ELSE catalog[c]]
                     \o [k \in 1..Len(payload) |->
                           [tenant |-> tenant, entry |-> payload[k][1],
                            external_id |-> payload[k][2]]]
               /\ lastResponse' = Done(rq, 200, payload, "synced")
    /\ UNCHANGED <<versions, instances, userTasks, serviceTasks, utIdem, cbIdem, audit,
                   req, clock, resumeCalls, outbound>>

SyncBindingInputs ==
    { <<"", "">>, <<"cap_leave", "send_email">>, <<"cap_pay", "payout">> }

SyncInit ==
    /\ versions =
         << [tenant |-> "tA", process_key |-> "leave_request_v1", version |-> 1,
             doc |-> LeaveRequest, catalog_binding_placeholders |-> <<>>],
            [tenant |-> "tA", process_key |-> "payout_v1", version |-> 1,
             doc |-> Payout,
             catalog_binding_placeholders |-> <<PayPlaceholder, ReceiptPlaceholder>>] >>
    /\ catalog =
         << [tenant |-> "tB", entry |-> "cap_leave", external_id |-> "send_email"] >>
    /\ instances = <<>>
    /\ userTasks = <<>>
    /\ serviceTasks = <<>>
    /\ utIdem = <<>>
    /\ cbIdem = <<>>
    /\ audit = <<>>
    /\ req = [r \in ReqIds |-> IdleReq]
    /\ lastResponse = IdleReq
    /\ issued = 0
    /\ clock = 1
    /\ resumeCalls = [id \in ServiceTaskIds |-> 0]
    /\ outbound = [id \in ServiceTaskIds |-> 0]

SyncNext ==
    \/ \E r \in ReqIds : WorkflowInstanceStart(r, "tA", "payout_v1", 1)
    \/ \E payload \in SyncPayloads : DiscoverySync("tA", payload)
    \/ \E r \in ReqIds, id \in Ids(serviceTasks), mode \in ExecutionModes,
           binding \in SyncBindingInputs :
           ServiceTaskStartBegin(r, "tA", id, mode, binding)
    \/ \E r \in ReqIds : ServiceTaskStartCommit(r)
    \/ \E r \in ReqIds, outcome \in HttpOutcomes : ServiceTaskStartReturn(r, outcome)
    \/ \E r \in ReqIds : ServiceTaskStartSettle(r)

SyncSpec == SyncInit /\ [][SyncNext]_vars

(***************************************************************************)
(* bpmn.py: validate_bpmn_xml.  A parsed document is a tree of elements;   *)
(* strings are compared, stripped and lowered character by character as    *)
(* Python's str does.                                                      *)
(***************************************************************************)
\* The characters the documents use, in ascending order of code point.
CodePointOrder ==
    " .0123456789:ABCDEFGHIJKLMNOPQRSTUVWXYZ[]_abcdefghijklmnopqrstuvwxyz"

CharAt(s, i) == SubSeq(s, i, i)

ord(c) == CHOOSE i \in 1..Len(CodePointOrder) : CharAt(CodePointOrder, i) = c

\* a < b on str: at the first position where they differ, or a is a proper
\* prefix of b.
str_less(a, b) ==
    \E i \in 1..Len(b) :
        /\ i - 1 <= Len(a)
        /\ SubSeq(a, 1, i - 1) = SubSeq(b, 1, i - 1)
        /\ \/ Len(a) = i - 1
           \/ ord(CharAt(a, i)) < ord(CharAt(b, i))

\* str.strip()
strip(s) ==
    LET kept == {i \in 1..Len(s) : CharAt(s, i) # " "}
    IN IF kept = {} THEN ""
       ELSE SubSeq(s, MinOf(kept), MaxOf(kept))

RECURSIVE lower(_)
\* str.lower()
lower(s) ==
    IF s = "" THEN ""
    ELSE LET c == CharAt(s, 1)
             upper == "ABCDEFGHIJKLMNOPQRSTUVWXYZ"
             at == {i \in 1..Len(upper) : CharAt(upper, i) = c}
         IN (IF at = {} THEN c
             ELSE CharAt("abcdefghijklmnopqrstuvwxyz", MinOf(at)))
            \o lower(SubSeq(s, 2, Len(s)))

\* marker in s
contains(marker, s) ==
    \E i \in 1..(Len(s) - Len(marker) + 1) :
        SubSeq(s, i, i + Len(marker) - 1) = marker

BPMN_MODEL_NS == "http://www.omg.org/spec/BPMN/20100524/MODEL"

SUPPORTED_BPMN_ELEMENTS_V1 ==
    { "definitions", "process", "startEvent", "endEvent", "sequenceFlow",
      "exclusiveGateway", "parallelGateway", "userTask", "serviceTask",
      "scriptTask", "sendTask", "subProcess", "incoming", "outgoing",
      "extensionElements", "documentation", "text", "conditionExpression",
      "script" }

UNSUPPORTED_BPMN_ELEMENT_MESSAGES ==
    [ boundaryEvent |-> "Boundary events are not supported.",
      timerEventDefinition |-> "Timer events are not supported.",
      messageEventDefinition |-> "Message events are not supported.",
      signalEventDefinition |-> "Signal events are not supported.",
      multiInstanceLoopCharacteristics |-> "Multi-instance is not supported.",
      compensateEventDefinition |-> "Compensation is not supported." ]

FORM_SCHEMA_ATTRIBUTE_NAMES == {"formKey", "formRef", "formId", "schemaRef", "schemaId"}

CATALOG_BINDING_ATTRIBUTE_MARKERS == {"catalog", "capability", "binding"}

\* sys.getrecursionlimit(): the depth of the interpreter's stack at which a
\* call raises RecursionError.
RecursionLimit == 1000

\* An element: the namespace and local name of its tag, its attributes in
\* document order and its children.  chain = n > 0 stands for n further
\* subProcess elements nested one inside the other around the children.
Element(namespace, local, attrib, children) ==
    [ namespace |-> namespace, local |-> local, attrib |-> attrib,
      children |-> children, chain |-> 0 ]

Attr(name, value) == [name |-> name, value |-> value]

\* list(element)
Children(element) ==
    IF element.chain = 0 THEN element.children
    ELSE << [element EXCEPT !.local = "subProcess", !.attrib = <<>>,
                            !.chain = @ - 1] >>

\* element.attrib.get(name, default)
attrib_get(element, name, default) ==
    LET at == {k \in 1..Len(element.attrib) : element.attrib[k].name = name}
    IN IF at = {} THEN default ELSE element.attrib[MinOf(at)].value

RECURSIVE Depth(_)
\* The number of elements on the longest path from the element down.
Depth(element) ==
    1 + element.chain
      + (IF element.children = <<>> THEN 0
         ELSE MaxOf({Depth(element.children[k]) : k \in 1..Len(element.children)}))

RECURSIVE iter_child_elements(_, _)
\* The descendants of the element in document order, each with its path:
\* parent_path.local[index], index counting the earlier siblings of the
\* same local name.
iter_child_elements(element, parent_path) ==
    LET kids == Children(element)
        index(k) == Cardinality({j \in 1..(k - 1) : kids[j].local = kids[k].local})
        child_path(k) ==
            parent_path \o "." \o kids[k].local \o "[" \o ToString(index(k)) \o "]"
        RECURSIVE from(_)
        from(k) ==
            IF k > Len(kids) THEN <<>>
            ELSE << [element |-> kids[k], path |-> child_path(k)] >>
                 \o iter_child_elements(kids[k], child_path(k))
                 \o from(k + 1)
    IN from(1)

iter_elements_with_paths(root) ==
    << [element |-> root, path |-> root.local] >>
    \o iter_child_elements(root, root.local)

BpmnError(path, code, message) ==
    [path |-> path, code |-> code, message |-> message]

\* (path, code, message) of a before that of b
error_key_less(a, b) ==
    \/ str_less(a.path, b.path)
    \/ a.path = b.path /\ str_less(a.code, b.code)
    \/ a.path = b.path /\ a.code = b.code /\ str_less(a.message, b.message)

RECURSIVE sorted_errors(_)
\* sorted(errors, key=(path, code, message)): a stable sort.
sorted_errors(errors) ==
    IF errors = <<>> THEN <<>>
    ELSE LET first == Head(errors)
             rest == sorted_errors(Tail(errors))
         IN SelectSeq(rest, LAMBDA e : error_key_less(e, first))
            \o <<first>>
            \o SelectSeq(rest, LAMBDA e : ~error_key_less(e, first))

RECURSIVE Flatten(_)
Flatten(lists) ==
    IF lists = <<>> THEN <<>> ELSE Head(lists) \o Flatten(Tail(lists))

IsCatalogBindingAttribute(attr) ==
    \E marker \in CATALOG_BINDING_ATTRIBUTE_MARKERS : contains(marker, lower(attr.name))

\* One placeholder for every serviceTask element of the BPMN namespace that
\* has an attribute whose lowered local name contains a marker.
collect_catalog_binding_placeholders(elements) ==
    Flatten([k \in 1..Len(elements) |->
        LET element == elements[k]
            attrs == SelectSeq(element.attrib, IsCatalogBindingAttribute)
        IN IF element.namespace # BPMN_MODEL_NS \/ element.local # "serviceTask"
           THEN <<>>
           ELSE IF attrs = <<>> THEN <<>>
           ELSE << [ element_id |-> attrib_get(element, "id", ""),
                     element_name |-> attrib_get(element, "name", ""),
                     element_type |-> element.local,
                     placeholders |-> attrs ] >>])

collect_form_schema_refs(elements) ==
    Flatten([k \in 1..Len(elements) |->
        LET element == elements[k]
            refs == SelectSeq(element.attrib,
                        LAMBDA attr : attr.name \in FORM_SCHEMA_ATTRIBUTE_NAMES
                                      /\ attr.value # "")
        IN [j \in 1..Len(refs) |->
              [ element_id |-> attrib_get(element, "id", ""),
                element_type |-> element.local,
                form_key |-> refs[j].value ]]])

\* The errors the loop over the elements adds for one element.
ElementErrors(element, path) ==
    IF element.namespace # BPMN_MODEL_NS THEN <<>>
    ELSE (IF element.local \in DOMAIN UNSUPPORTED_BPMN_ELEMENT_MESSAGES
          THEN << BpmnError(path, "unsupported_bpmn_element",
                            UNSUPPORTED_BPMN_ELEMENT_MESSAGES[element.local]) >>
          ELSE IF element.local \notin SUPPORTED_BPMN_ELEMENTS_V1
          THEN << BpmnError(path, "unsupported_bpmn_element",
                            "Unsupported BPMN element: " \o element.local \o ".") >>
          ELSE <<>>)
         \o Flatten([k \in 1..Len(element.attrib) |->
               IF /\ element.attrib[k].name = "isForCompensation"
                  /\ lower(element.attrib[k].value) = "true"
               THEN << BpmnError(path, "unsupported_bpmn_element",
                                 "Compensation is not supported.") >>
               ELSE <<>>])

\* What a call returns or raises: raised names the exception, snapshot holds
\* the snapshot (empty for None), errors is the error list.
Validated(raised, snapshot, errors) ==
    [raised |-> raised, snapshot |-> snapshot, errors |-> errors]

\* validate_bpmn_xml on the outcome of ET.fromstring: a ParseError
\* (wellformed = FALSE) or the root element.
validate_bpmn_root(document) ==
    IF ~document.wellformed
    THEN Validated("", <<>>,
             sorted_errors(<< BpmnError("", "invalid_bpmn_xml", "Invalid BPMN XML.") >>))
    ELSE IF Depth(document.root) >= RecursionLimit
    THEN \* _iter_child_elements calls itself once for every level
         Validated("RecursionError", <<>>, <<>>)
    ELSE
    LET root == document.root
        found == iter_elements_with_paths(root)
        elements == [k \in 1..Len(found) |-> found[k].element]
        process_elements ==
            SelectSeq(elements,
                LAMBDA e : e.namespace = BPMN_MODEL_NS /\ e.local = "process")
        process_key ==
            IF Len(process_elements) = 1
            THEN strip(attrib_get(process_elements[1], "id", "")) ELSE ""
        process_name ==
            IF Len(process_elements) = 1
            THEN attrib_get(process_elements[1], "name", "") ELSE ""
        process_errors ==
            IF Len(process_elements) = 0
            THEN << BpmnError("process", "missing_process_key", "Process id is required.") >>
            ELSE IF Len(process_elements) > 1
            THEN << BpmnError("process", "multiple_processes",
                              "Only one process is supported.") >>
            ELSE IF process_key = ""
            THEN << BpmnError("process", "missing_process_key", "Process id is required.") >>
            ELSE <<>>
        errors ==
            process_errors
            \o Flatten([k \in 1..Len(found) |->
                          ElementErrors(found[k].element, found[k].path)])
    IN IF errors # <<>>
       THEN Validated("", <<>>, sorted_errors(errors))
       ELSE Validated("",
                << [ process_key |-> process_key,
                     process_name |-> process_name,
                     form_schema_refs |-> collect_form_schema_refs(elements),
                     catalog_binding_placeholders |->
                         collect_catalog_binding_placeholders(elements) ] >>,
                <<>>)

\* The documents validated: a process has up to MaxChildren children.
MaxChildren == 2

\* serviceTask elements with and without binding attributes and an id, a
\* userTask and an element of another namespace that carry binding
\* attributes, a timer, an unknown element marked for compensation, a
\* script task; a process with an id, a blank id and no id; documents with
\* no process, two processes, a process as root, nested subProcess
\* elements, and text that is not well-formed XML.
BpmnDocuments ==
    LET ProcessChildren ==
            { Element(BPMN_MODEL_NS, "serviceTask",
                      <<Attr("id", "ServiceTask_Pay"), Attr("name", "Pay"),
                        Attr("catalogEntryId", "cap_pay"),
                        Attr("serviceTaskBinding", "payout")>>, <<>>),
              Element(BPMN_MODEL_NS, "serviceTask",
                      <<Attr("capabilityRef", "cap_pay")>>, <<>>),
              Element(BPMN_MODEL_NS, "serviceTask",
                      <<Attr("id", "ServiceTask_Plain")>>, <<>>),
              Element(BPMN_MODEL_NS, "userTask",
                      <<Attr("id", "UserTask_Review"), Attr("formKey", "review_form"),
                        Attr("catalogBinding", "cap_pay")>>, <<>>),
              Element("urn:vendor", "serviceTask",
                      <<Attr("id", "Vendor_Task"), Attr("binding", "cap_pay")>>, <<>>),
              Element(BPMN_MODEL_NS, "timerEventDefinition", <<>>, <<>>),
              Element(BPMN_MODEL_NS, "callActivity",
                      <<Attr("id", "Call_1"), Attr("isForCompensation", "TRUE")>>, <<>>),
              Element(BPMN_MODEL_NS, "scriptTask",
                      <<Attr("id", "ScriptTask_Log"),
                        Attr("isForCompensation", "false")>>, <<>>) }
        ProcessAttributes ==
            { <<Attr("id", "payout_v1"), Attr("name", "Payout")>>,
              <<Attr("id", " ")>>,
              <<>> }
        ChildLists == UNION { [1..n -> ProcessChildren] : n \in 0..MaxChildren }
        Process(attrib, children) == Element(BPMN_MODEL_NS, "process", attrib, children)
        Definitions(children) ==
            [ wellformed |-> TRUE,
              root |-> Element(BPMN_MODEL_NS, "definitions", <<>>, children) ]
        \* a chain of subProcess elements around one child
        Nested(chain, child) ==
            [Element(BPMN_MODEL_NS, "subProcess", <<>>, <<child>>)
                EXCEPT !.chain = chain]
    IN { [wellformed |-> FALSE, root |-> Element("", "", <<>>, <<>>)] }
       \cup { Definitions(<< Process(attrib, children) >>) :
                 attrib \in ProcessAttributes, children \in ChildLists }
       \cup { Definitions(children) : children \in ChildLists }
       \cup { Definitions(<< Process(attrib, <<>>), Process(attrib, <<child>>) >>) :
                 attrib \in ProcessAttributes, child \in ProcessChildren }
       \cup { [wellformed |-> TRUE, root |-> Process(attrib, <<child>>)] :
                 attrib \in ProcessAttributes, child \in ProcessChildren }
       \cup { Definitions(<< Process(<<Attr("id", "payout_v1")>>,
                                     << Nested(chain, child) >>) >>) :
                 chain \in {1, RecursionLimit}, child \in ProcessChildren }

\* The document of the call is drawn at the start (the worker holds it as
\* its upload); the database is empty.
ValidateInit ==
    /\ versions = <<>>
    /\ catalog = <<>>
    /\ instances = <<>>
    /\ userTasks = <<>>
    /\ serviceTasks = <<>>
    /\ utIdem = <<>>
    /\ cbIdem = <<>>
    /\ audit = <<>>
    /\ \E document \in BpmnDocuments :
          req = [r \in ReqIds |->
                   IF r = 1
                   THEN [IdleReq EXCEPT !.pc = "validate", !.kind = "validate_bpmn",
                                        !.upload = document]
                   ELSE IdleReq]
    /\ lastResponse = IdleReq
    /\ issued = 0
    /\ clock = 1
    /\ resumeCalls = [id \in ServiceTaskIds |-> 0]
    /\ outbound = [id \in ServiceTaskIds |-> 0]

\* One call of the function; lastResponse records its argument and what it
\* returned or raised.
ValidateBpmnXml(r) ==
    /\ req[r].pc = "validate"
    /\ LET document == req[r].upload
           result == validate_bpmn_root(document)
       IN Step(r, Done(req[r], 0, [document |-> document, result |-> result],
                       IF result.raised # "" THEN "raised"
                       ELSE IF result.snapshot = <<>> THEN "invalid" ELSE "valid"))
    /\ UNCHANGED <<db, issued, clock, resumeCalls, outbound>>

ValidateNext == \E r \in ReqIds : ValidateBpmnXml(r)

ValidateSpec == ValidateInit /\ [][ValidateNext]_vars

(***************************************************************************)
(* Properties.                                                             *)
(***************************************************************************)
\* Handler r takes a step.
Steps(r) == req'[r] # req[r]

\* Handler r returns in this step; its response is lastResponse'.
Returns(r) == req[r].pc # "idle" /\ req'[r].pc = "idle"

\* A non-map JSON value stored as {"result": value}; a map stored as it is.
ResultMap(payload) ==
    IF payload.map THEN payload ELSE [map |-> TRUE, wrapped |-> TRUE, v |-> payload.v]

Range(s) == {s[i] : i \in 1..Len(s)}

\* C1 -- user-task completion replay.  A completion request that finds a
\* record of its tenant with its Idempotency-Key, its task and its request
\* hash is answered 200 with exactly the stored response_payload and changes
\* no UserTask row, no audit event and no idempotency record.  The stored
\* payload is the response of the request that stored it, and a stored record
\* is never modified or removed by any operation.
C1_UserTaskReplay ==
    [][ /\ \A r \in ReqIds :
             ( /\ req[r].pc = "ut_txn"
               /\ Steps(r)
               /\ req[r].key # NoKey
               /\ \E i \in Ids(utIdem) :
                     /\ utIdem[i].tenant = req[r].tenant
                     /\ utIdem[i].idempotency_key = req[r].key
                     /\ utIdem[i].user_task = req[r].target
                     /\ utIdem[i].request_hash = req[r].hash )
             => /\ Returns(r)
                /\ \E i \in Ids(utIdem) :
                     /\ utIdem[i].tenant = req[r].tenant
                     /\ utIdem[i].idempotency_key = req[r].key
                     /\ lastResponse'.resp = Response(200, utIdem[i].response_payload)
                /\ userTasks' = userTasks
                /\ audit' = audit
                /\ utIdem' = utIdem
        /\ Len(utIdem') >= Len(utIdem)
        /\ \A i \in Ids(utIdem) : utIdem'[i] = utIdem[i]
        /\ Len(utIdem') > Len(utIdem)
             => /\ Len(utIdem') = Len(utIdem) + 1
                /\ lastResponse'.resp =
                       Response(200, utIdem'[Len(utIdem')].response_payload)
      ]_vars

\* C1 witness: a replay was answered with the stored payload although the
\* instance status it reports is no longer the instance's status.
C1_ReplayAfterChange ==
    /\ lastResponse.kind = "user_task_complete"
    /\ lastResponse.branch = "replay"
    /\ lastResponse.resp.code = 200
    /\ lastResponse.resp.body.workflow_instance_status #
           instances[userTasks[lastResponse.target].workflow_instance].status

\* C2 -- user-task idempotency conflict.  A completion request whose lookup
\* finds a record of its tenant with its Idempotency-Key, recorded for another
\* task or with another request hash, is answered 409 and leaves every
\* UserTask row (the targeted one included, pending or not), the idempotency
\* records and the audit log unchanged.
C2_UserTaskIdempotencyConflict ==
    [][ \A r \in ReqIds :
          ( /\ req[r].pc = "ut_txn"
            /\ Steps(r)
            /\ req[r].idemSeen # NoId
            /\ utIdem[req[r].idemSeen].tenant = req[r].tenant
            /\ utIdem[req[r].idemSeen].idempotency_key = req[r].key
            /\ \/ utIdem[req[r].idemSeen].user_task # req[r].target
               \/ utIdem[req[r].idemSeen].request_hash # req[r].hash )
          => /\ Returns(r)
             /\ lastResponse'.resp = Response(409, Detail("Idempotency key conflict."))
             /\ userTasks' = userTasks
             /\ utIdem' = utIdem
             /\ audit' = audit
      ]_vars

\* C2 witness: a conflict was answered for a task that is still pending.
C2_ConflictOnPendingTask ==
    /\ lastResponse.kind = "user_task_complete"
    /\ lastResponse.resp.code = 409
    /\ userTasks[lastResponse.target].status = "pending"

\* C3 -- callback idempotency.  A correctly signed callback whose lookup
\* finds a record with its Idempotency-Key returns in its first transaction:
\* with the stored response_payload when the record is for the same service
\* task and the same request hash (sha256 of body || timestamp), with 409
\* otherwise; the interpreter is not invoked and no row of any table changes.
C3_CallbackIdempotency ==
    [][ \A r \in ReqIds :
          ( /\ req[r].pc = "cb_txn1"
            /\ Steps(r)
            /\ req[r].idemSeen # NoId )
          => /\ Returns(r)
             /\ req[r].hash = req[r].body \o req[r].ts
             /\ cbIdem[req[r].idemSeen].tenant = req[r].tenant
             /\ cbIdem[req[r].idemSeen].idempotency_key = req[r].key
             /\ lastResponse'.resp =
                   IF /\ cbIdem[req[r].idemSeen].service_task = req[r].target
                      /\ cbIdem[req[r].idemSeen].request_hash = req[r].hash
                   THEN Response(200, cbIdem[req[r].idemSeen].response_payload)
                   ELSE Response(409, Detail("Idempotency key conflict."))
             /\ UNCHANGED db
             /\ resumeCalls' = resumeCalls
      ]_vars

\* C3 witness: a callback was replayed with a stored payload that no longer
\* describes the task's current status.
C3_CallbackReplayAfterChange ==
    /\ lastResponse.kind = "service_task_callback"
    /\ lastResponse.branch = "replay"
    /\ lastResponse.resp.code = 200
    /\ lastResponse.resp.body.status # serviceTasks[lastResponse.target].status

\* The tenants on whose behalf this step runs.
ActingTenants ==
    {req[r].tenant : r \in {q \in ReqIds : req[q].pc # "idle" /\ Steps(q)}}
    \cup {req'[r].tenant : r \in {q \in ReqIds : req[q].pc = "idle" /\ Steps(q)}}
    \cup (IF req' = req /\ issued' # issued THEN {lastResponse'.tenant} ELSE {})

\* No row of another tenant is added, changed or removed.
ForeignRowsUnchanged(old, new, acting) ==
    /\ Len(new) >= Len(old)
    /\ \A i \in 1..Len(old) : old[i].tenant \notin acting => new[i] = old[i]
    /\ \A i \in 1..Len(new) : new[i].tenant \notin acting => i <= Len(old) /\ new[i] = old[i]

\* The last response carries no entity of a tenant other than the caller's.
ResponseIsolated ==
    LET d == lastResponse IN
    /\ (d.kind = "user_task_complete" /\ userTasks[d.target].tenant # d.tenant)
         => d.resp = Response(404, Detail("Not found."))
    /\ (d.kind = "service_task_start" /\ serviceTasks[d.target].tenant # d.tenant)
         => d.resp = Response(404, Detail("Not found."))
    /\ (d.kind = "service_task_callback" /\ serviceTasks[d.target].tenant # d.tenant)
         => \/ d.resp = Response(404, Detail("Not found."))
            \/ d.resp = Response(401, Detail("Invalid callback signature."))
    /\ (d.kind = "instance_detail" /\ instances[d.target].tenant # d.tenant)
         => d.resp = Response(404, Detail("Not found."))
    /\ (d.kind = "instance_start" /\ d.resp.code # 404)
         => instances[d.target].tenant = d.tenant
    /\ (d.kind = "version_detail" /\ d.resp.code # 404)
         => versions[d.target].tenant = d.tenant
    /\ d.kind = "user_task_list"
         => \A k \in 1..Len(d.resp.body.items) :
               userTasks[d.resp.body.items[k].id].tenant = d.tenant
    /\ d.kind = "service_task_list"
         => \A k \in 1..Len(d.resp.body.items) :
               serviceTasks[d.resp.body.items[k].id].tenant = d.tenant
    /\ d.kind = "audit_event_list"
         => \A k \in 1..Len(d.resp.body.items) :
               audit[d.resp.body.items[k].id].tenant = d.tenant

\* C4 -- tenant isolation.  Every response to a tenant carries only entities
\* of that tenant: a request naming another tenant's instance, user task or
\* service task is answered 404 (401 for a callback whose signature is wrong),
\* a version of another tenant is not found, and the task and audit lists hold
\* only the caller's rows.  A step taken on behalf of a tenant adds, changes
\* and removes no row of any other tenant.
C4_TenantIsolation ==
    [][ /\ ResponseIsolated'
        /\ ForeignRowsUnchanged(versions, versions', ActingTenants)
        /\ ForeignRowsUnchanged(catalog, catalog', ActingTenants)
        /\ ForeignRowsUnchanged(instances, instances', ActingTenants)
        /\ ForeignRowsUnchanged(userTasks, userTasks', ActingTenants)
        /\ ForeignRowsUnchanged(serviceTasks, serviceTasks', ActingTenants)
        /\ ForeignRowsUnchanged(utIdem, utIdem', ActingTenants)
        /\ ForeignRowsUnchanged(cbIdem, cbIdem', ActingTenants)
        /\ ForeignRowsUnchanged(audit, audit', ActingTenants)
      ]_vars

\* C4 witness: a correctly signed callback of tenant tB that names a service
\* task of tenant tA was answered 404.
C4_ForeignCallbackNotFound ==
    /\ lastResponse.kind = "service_task_callback"
    /\ lastResponse.tenant = "tB"
    /\ lastResponse.resp.code = 404
    /\ serviceTasks[lastResponse.target].tenant = "tA"

ServiceTaskTransitions ==
    { <<"pending", "in_progress">>, <<"failed", "in_progress">>,
      <<"in_progress", "waiting">>, <<"in_progress", "completed">>,
      <<"in_progress", "failed">>,
      <<"waiting", "completed">>, <<"waiting", "failed">> }

\* C5 -- service-task state machine.  A ServiceTask's status changes only
\* along pending -> in_progress, failed -> in_progress,
\* in_progress -> waiting | completed | failed and waiting -> completed | failed.
C5_ServiceTaskStateMachine ==
    [][ \A id \in Ids(serviceTasks) :
          serviceTasks'[id].status # serviceTasks[id].status
          => <<serviceTasks[id].status, serviceTasks'[id].status>> \in ServiceTaskTransitions
      ]_vars

\* C6 -- start gate.  A start request that finds the task, under the row
\* lock, in a status other than pending or failed returns 200 with the
\* current serialized task and changes no row, writes no audit event and
\* sends no outbound call.  A pending task has never been dispatched, and a
\* request that passes the gate with a binding that resolves dispatches
\* exactly one call and leaves the task in_progress: of the start requests
\* that take the lock of a pending task one after another, only the first
\* dispatches while its call is outstanding.
C6_StartGate ==
    [][ \A r \in ReqIds :
          (req[r].pc = "st_txn1" /\ Steps(r))
          => LET id == req[r].target
                 task == serviceTasks[id]
             IN /\ task.status \notin {"pending", "failed"}
                     => /\ Returns(r)
                        /\ lastResponse'.resp =
                              Response(200, ServiceTaskSerializer(id, task,
                                  instances[task.workflow_instance].status))
                        /\ UNCHANGED db
                        /\ outbound' = outbound
                /\ task.status = "pending" => outbound[id] = 0
                /\ outbound' # outbound
                     => /\ outbound' = [outbound EXCEPT ![id] = @ + 1]
                        /\ serviceTasks'[id].status = "in_progress"
                        /\ audit'[Len(audit')].event_type = "service_task_start"
                /\ ( /\ task.status \in {"pending", "failed"}
                     /\ ResolveBinding(req[r].tenant, task, req[r].ceid, req[r].ctid).code
                            = "ok" )
                     => outbound'[id] = outbound[id] + 1
      ]_vars

\* C6 witness: a start request was answered by the gate while the outbound
\* call of an earlier start request for the same task was still outstanding.
C6_SecondStartIsNoOp ==
    /\ lastResponse.kind = "service_task_start"
    /\ lastResponse.branch = "noop"
    /\ outbound[lastResponse.target] = 1
    /\ \E r \in ReqIds : /\ req[r].kind = "service_task_start"
                         /\ req[r].target = lastResponse.target
                         /\ req[r].pc = "st_http"

\* C7 -- concurrent callbacks.  A callback that found the task waiting in
\* its first transaction and finds it completed when its second transaction
\* holds the row lock (another callback completed it in between) returns 200
\* with the stored task and does not resume the interpreter.
C7_SecondCallbackObservesCompleted ==
    [][ \A r \in ReqIds :
          ( /\ req[r].pc = "cb_txn2"
            /\ Steps(r)
            /\ req[r].seen = "waiting"
            /\ serviceTasks[req[r].target].status = "completed" )
          => /\ resumeCalls' = resumeCalls
             /\ lastResponse'.resp.code = 200
      ]_vars

\* C8 -- instance terminal states.  Once an instance's status is completed
\* or failed, no step changes it.
C8_InstanceTerminal ==
    [][ \A i \in Ids(instances) :
          instances[i].status \in {"completed", "failed"}
          => instances'[i].status = instances[i].status
      ]_vars

\* C9 -- sync success.  When the outbound call of a sync start returned 2xx,
\* the second transaction either commits all of: the instance's status and
\* serialized_state set to the RunResult of resuming the handler's instance
\* state with completed_task_id = task.task_id and the normalized response
\* as task_result, a pending row inserted for every waiting task of that
\* RunResult that had none, the ServiceTask completed with the normalized
\* response stored and completed_at stamped; or it commits nothing (the
\* interpreter raised and the request ends 500).
C9_SyncSuccessAtomic ==
    [][ \A r \in ReqIds :
          ( /\ req[r].pc = "st_txn2"
            /\ Steps(r)
            /\ req[r].mode = "sync"
            /\ req[r].http.error = "" )
          => LET id == req[r].target
                 task == serviceTasks[id]
                 iid == task.workflow_instance
                 response == ResultMap(req[r].http.payload)
             IN /\ Returns(r)
                /\ \/ /\ UNCHANGED db
                      /\ lastResponse'.resp.code = 500
                   \/ \E run \in resume_workflow_from_state(
                              DocOfInstance(iid), req[r].inst.serialized_state,
                              task.task_id, response) :
                        /\ ~run.raised
                        /\ instances' = [instances EXCEPT ![iid] =
                               [@ EXCEPT !.status = run.status,
                                         !.serialized_state = run.serialized_state]]
                        /\ Len(serviceTasks') >= Len(serviceTasks)
                        /\ serviceTasks'[id] =
                               [task EXCEPT !.status = "completed",
                                            !.response_payload = response,
                                            !.completed_at = clock]
                        /\ \A j \in Ids(serviceTasks) \ {id} :
                               serviceTasks'[j] = serviceTasks[j]
                        /\ \A j \in Ids(serviceTasks') \ Ids(serviceTasks) :
                               /\ serviceTasks'[j].status = "pending"
                               /\ serviceTasks'[j].tenant = req[r].tenant
                               /\ serviceTasks'[j].workflow_instance = iid
                               /\ serviceTasks'[j].task_id \in Range(run.waiting_service_tasks)
                        /\ \A t \in Range(run.waiting_service_tasks) :
                               \E j \in Ids(serviceTasks') :
                                   /\ serviceTasks'[j].workflow_instance = iid
                                   /\ serviceTasks'[j].task_id = t
                        /\ Len(userTasks') >= Len(userTasks)
                        /\ \A j \in Ids(userTasks) : userTasks'[j] = userTasks[j]
                        /\ \A j \in Ids(userTasks') \ Ids(userTasks) :
                               /\ userTasks'[j].status = "pending"
                               /\ userTasks'[j].tenant = req[r].tenant
                               /\ userTasks'[j].workflow_instance = iid
                               /\ userTasks'[j].task_id \in Range(run.waiting_user_tasks)
                        /\ \A t \in Range(run.waiting_user_tasks) :
                               \E j \in Ids(userTasks') :
                                   /\ userTasks'[j].workflow_instance = iid
                                   /\ userTasks'[j].task_id = t
                        /\ lastResponse'.resp.code = 200
                        /\ lastResponse'.resp.body.status = "completed"
      ]_vars

\* C9 witness: a sync start committed, the interpreter advanced to the next
\* service task and its pending row was inserted.
C9_SyncSuccessCommitted ==
    /\ lastResponse.kind = "service_task_start"
    /\ lastResponse.branch = "completed"
    /\ serviceTasks[lastResponse.target].status = "completed"
    /\ serviceTasks[lastResponse.target].response_payload.wrapped
    /\ Len(serviceTasks) = 2
    /\ serviceTasks[2].status = "pending"

\* C10 -- async success.  When the outbound call of an async start returned
\* 2xx, the second transaction sets the ServiceTask to waiting with the
\* normalized response stored and changes nothing else: the interpreter is
\* not invoked, and the instance rows, the user-task rows and every other
\* service-task row stay as they were.
C10_AsyncSuccessFrame ==
    [][ \A r \in ReqIds :
          ( /\ req[r].pc = "st_txn2"
            /\ Steps(r)
            /\ req[r].mode = "async"
            /\ req[r].http.error = "" )
          => LET id == req[r].target
                 task == serviceTasks[id]
             IN /\ Returns(r)
                /\ serviceTasks' = [serviceTasks EXCEPT ![id] =
                       [task EXCEPT !.status = "waiting",
                                    !.response_payload = ResultMap(req[r].http.payload)]]
                /\ instances' = instances
                /\ userTasks' = userTasks
                /\ resumeCalls' = resumeCalls
                /\ lastResponse'.resp.code = 200
                /\ lastResponse'.resp.body.status = "waiting"
      ]_vars

\* C10 witness: an async start was answered with the task parked as waiting
\* and the (scalar) response stored wrapped.
C10_AsyncParked ==
    /\ lastResponse.kind = "service_task_start"
    /\ lastResponse.branch = "waiting"
    /\ serviceTasks[lastResponse.target].status = "waiting"
    /\ serviceTasks[lastResponse.target].response_payload.wrapped
    /\ resumeCalls[lastResponse.target] = 0

C12_TimeoutFailsTask ==
    [][ \A r \in ReqIds :
          ( /\ req[r].kind = "service_task_start"
            /\ Returns(r)
            /\ lastResponse'.cause \in {"connect_timeout", "read_timeout"} )
          => LET id == req[r].target
             IN /\ serviceTasks'[id].status = "failed"
                /\ instances'[serviceTasks'[id].workflow_instance].status = "failed"
      ]_vars

\* C13 -- failed callback.  A correctly signed callback whose body status is
\* "failed" in any letter case, and whose first transaction found the task
\* not completed, sets the ServiceTask to failed with last_error = body.error,
\* the normalized result stored and completed_at stamped, sets the instance
\* to failed and answers 200 with the serialized task; the interpreter is not
\* invoked, serialized_state is unchanged and no task row is created.  (The
\* case of a request whose Idempotency-Key was recorded by another request
\* between its two transactions is left out: its insert fails.)
C13_FailedCallback ==
    [][ \A r \in ReqIds :
          ( /\ req[r].pc = "cb_txn2"
            /\ Steps(r)
            /\ req[r].body = BodyFailed
            /\ IdemLookup(cbIdem, req[r].tenant, req[r].key) = NoId )
          => LET id == req[r].target
                 task == serviceTasks[id]
                 iid == task.workflow_instance
             IN /\ req[r].seen # "completed"
                /\ Returns(r)
                /\ serviceTasks' = [serviceTasks EXCEPT ![id] =
                       [task EXCEPT !.status = "failed",
                                    !.last_error = "boom",
                                    !.response_payload = JsonMap("body"),
                                    !.completed_at = clock]]
                /\ instances' = [instances EXCEPT ![iid] = [@ EXCEPT !.status = "failed"]]
                /\ userTasks' = userTasks
                /\ resumeCalls' = resumeCalls
                /\ lastResponse'.resp.code = 200
                /\ lastResponse'.resp.body.status = "failed"
                /\ lastResponse'.resp.body.workflow_instance_status = "failed"
      ]_vars

\* C13 witness: a callback with status FAILED was answered; the task is
\* failed with the body's error, the instance is failed, the interpreter was
\* never resumed for the task and the task is still ready in the engine state.
C13_CallbackFailedTask ==
    /\ lastResponse.kind = "service_task_callback"
    /\ lastResponse.branch = "failed"
    /\ serviceTasks[lastResponse.target].status = "failed"
    /\ serviceTasks[lastResponse.target].last_error = "boom"
    /\ resumeCalls[lastResponse.target] = 0
    /\ LET iid == serviceTasks[lastResponse.target].workflow_instance
       IN /\ instances[iid].status = "failed"
          /\ serviceTasks[lastResponse.target].task_id
                 \in instances[iid].serialized_state.ready

\* The callback of handler r is answered 401 for its signature in this step.
SignatureRejected(r) ==
    /\ Returns(r)
    /\ lastResponse'.resp = Response(401, Detail("Invalid callback signature."))

\* The callback of handler r passes the signature check in this step: it
\* goes on to look the task up.
SignatureAccepted(r) ==
    \/ req'[r].pc = "cb_txn1"
    \/ Returns(r) /\ lastResponse'.resp = Response(404, Detail("Not found."))

\* C14 -- HMAC verification.  A callback that carries the key and both
\* signature headers passes the signature check iff the supplied signature
\* equals the HMAC, keyed with the raw key, of body || timestamp.  A
\* signature produced for (k, b, t) is accepted when the request carries
\* exactly k, b and t, and is answered 401 when exactly one of the key, the
\* body or the timestamp of the request differs from what was signed.
C14_HmacVerification ==
    [][ \A r \in ReqIds :
          ( /\ req[r].pc = "cb_recv"
            /\ Steps(r)
            /\ req[r].raw_key # ""
            /\ req[r].ts # NoHeader
            /\ req[r].sig # NoHeader )
          => /\ SignatureAccepted(r)
                  <=> req[r].sig = callback_signature(req[r].raw_key, req[r].body, req[r].ts)
             /\ \A k \in CallbackRawKeys \ {""}, b \in CallbackBodies,
                   t \in CallbackTimestamps \ {NoHeader} :
                   req[r].sig = callback_signature(k, b, t)
                   => /\ (k = req[r].raw_key /\ b = req[r].body /\ t = req[r].ts)
                           => SignatureAccepted(r)
                      /\ ( \/ k # req[r].raw_key /\ b = req[r].body /\ t = req[r].ts
                           \/ k = req[r].raw_key /\ b # req[r].body /\ t = req[r].ts
                           \/ k = req[r].raw_key /\ b = req[r].body /\ t # req[r].ts )
                           => SignatureRejected(r)
      ]_vars

\* C14 witness: a callback whose signature verifies has passed the check and
\* holds the row lock, after a callback for the same task was answered 401
\* for its signature.
C14_AcceptedAndRejected ==
    /\ lastResponse.kind = "service_task_callback"
    /\ lastResponse.branch = "bad_signature"
    /\ lastResponse.resp.code = 401
    /\ \E r \in ReqIds :
          /\ req[r].pc = "cb_txn1"
          /\ req[r].target = lastResponse.target
          /\ req[r].sig = <<req[r].raw_key, req[r].body \o req[r].ts>>

\* C15 -- callback rejection.  A callback without X-Tenant-Api-Key is
\* answered 401; one with the key but without X-Callback-Timestamp or
\* X-Callback-Signature is answered 400; one whose signature does not match
\* is answered 401.  In the three cases the handler returns without taking a
\* row lock and no row of any table changes.
C15_CallbackRejection ==
    [][ \A r \in ReqIds :
          (req[r].pc = "cb_recv" /\ Steps(r))
          => LET rq == req[r]
                 no_key == rq.raw_key = ""
                 no_header == ~no_key /\ (rq.ts = NoHeader \/ rq.sig = NoHeader)
                 mismatch == /\ ~no_key
                             /\ ~no_header
                             /\ rq.sig # <<rq.raw_key, rq.body \o rq.ts>>
             IN /\ no_key => lastResponse'.resp =
                                 Response(401, Detail("Missing tenant API key."))
                /\ no_header => lastResponse'.resp =
                                 Response(400, Detail("Missing callback signature headers."))
                /\ mismatch => lastResponse'.resp =
                                 Response(401, Detail("Invalid callback signature."))
                /\ (no_key \/ no_header \/ mismatch)
                     => /\ Returns(r)
                        /\ UNCHANGED db
                        /\ resumeCalls' = resumeCalls
      ]_vars

\* C16 -- user-task completion does not resume the interpreter.  The
\* transaction of a completion request changes no instance row (status and
\* serialized_state stay), no ServiceTask row and no other UserTask row, adds
\* no task row and does not call the interpreter; of the targeted row only
\* status, actor_identity, action, action_data and completed_at change, and a
\* request that completes a pending task sets exactly these from its inputs.
C16_UserTaskCompleteFrame ==
    [][ \A r \in ReqIds :
          (req[r].pc = "ut_txn" /\ Steps(r))
          => LET id == req[r].target
                 task == userTasks[id]
             IN /\ Returns(r)
                /\ instances' = instances
                /\ serviceTasks' = serviceTasks
                /\ resumeCalls' = resumeCalls
                /\ outbound' = outbound
                /\ Len(userTasks') = Len(userTasks)
                /\ \A j \in Ids(userTasks) \ {id} : userTasks'[j] = userTasks[j]
                /\ userTasks'[id].tenant = task.tenant
                /\ userTasks'[id].workflow_instance = task.workflow_instance
                /\ userTasks'[id].task_id = task.task_id
                /\ lastResponse'.branch = "completed"
                     => /\ task.status = "pending"
                        /\ userTasks'[id].status = "completed"
                        /\ userTasks'[id].actor_identity = req[r].actor
                        /\ userTasks'[id].action = req[r].action
                        /\ userTasks'[id].action_data = req[r].data
                        /\ userTasks'[id].completed_at = clock
                        /\ Len(audit') = Len(audit) + 1
                /\ userTasks' # userTasks => lastResponse'.branch = "completed"
      ]_vars

\* C16 witness: a user task was completed; the instance is still waiting, the
\* engine state still has the task ready, and the other user task of the
\* instance is still pending.
C16_CompletedWithoutResume ==
    /\ lastResponse.kind = "user_task_complete"
    /\ lastResponse.branch = "completed"
    /\ userTasks[lastResponse.target].status = "completed"
    /\ LET iid == userTasks[lastResponse.target].workflow_instance
       IN /\ instances[iid].status = "waiting"
          /\ userTasks[lastResponse.target].task_id
                 \in instances[iid].serialized_state.ready
          /\ \E j \in Ids(userTasks) : /\ userTasks[j].workflow_instance = iid
                                       /\ userTasks[j].status = "pending"

\* C17 -- a UserTask is completed at most once.  A completion request for a
\* completed task, with no idempotency record under its key, is answered 200
\* with the task's current serialized form and changes no UserTask row and
\* no audit event, whatever actor and action it carries; no step changes any
\* field of a completed UserTask, so it never returns to pending.  (The case
\* of a request whose Idempotency-Key was recorded by a request for another
\* task during its transaction is left out: its insert fails.)
C17_CompletedOnce ==
    [][ /\ \A r \in ReqIds :
             ( /\ req[r].pc = "ut_txn"
               /\ Steps(r)
               /\ userTasks[req[r].target].status = "completed"
               /\ req[r].idemSeen = NoId
               /\ IdemLookup(utIdem, req[r].tenant, req[r].key) = NoId )
             => LET id == req[r].target
                    task == userTasks[id]
                IN /\ Returns(r)
                   /\ lastResponse'.resp =
                          Response(200, UserTaskSerializer(id, task,
                              instances[task.workflow_instance].status))
                   /\ userTasks' = userTasks
                   /\ audit' = audit
        /\ \A j \in Ids(userTasks) :
             userTasks[j].status = "completed" => userTasks'[j] = userTasks[j]
      ]_vars

\* C17 witness: a request carrying one action was answered, and recorded,
\* with the task as it was completed by a request carrying the other action.
C17_SecondCompletionIgnored ==
    /\ lastResponse.kind = "user_task_complete"
    /\ lastResponse.branch = "already_completed"
    /\ \E i \in Ids(utIdem) :
          /\ utIdem[i].user_task = lastResponse.target
          /\ utIdem[i].request_hash[2] # utIdem[i].response_payload.action
          /\ utIdem[i].response_payload.action = userTasks[lastResponse.target].action
          /\ utIdem[i].response_payload.status = "completed"

\* C18 -- concurrent uploads.  Every upload of a valid BPMN document that has
\* entered its transaction, whatever other upload of the same (tenant,
\* process_key) runs at the same time, is answered 201 with the version that
\* follows the latest stored one (1 if there is none), and stores a row with
\* that version: no upload fails and no version is assigned twice.
C18_ConcurrentUploads ==
    [][\A r \in ReqIds :
          (req[r].pc = "up_txn" /\ Returns(r)) =>
              LET k == NextVersion(versions, req[r].tenant, req[r].process_key)
              IN /\ lastResponse'.resp.code = 201
                 /\ lastResponse'.resp.body.version = k
                 /\ Len(versions') = Len(versions) + 1
                 /\ versions'[Len(versions')].version = k]_vars

\* The versions stored for every definition are 1..k, each once.
DenseVersions(table) ==
    \A t \in Tenants, k \in ProcessKeys :
        LET rows == VersionsOf(table, t, k)
        IN /\ {table[v].version : v \in rows} = 1..Cardinality(rows)
           /\ \A v, w \in rows : table[v].version = table[w].version => v = w

\* C19 -- dense immutable versions.  In every state the versions stored for
\* one definition are exactly 1..k, each once; no step modifies or removes a
\* stored version row; a step in which an upload is answered 201 appends
\* exactly one row, of the uploaded definition, with version k + 1 and the
\* uploaded document; every other step leaves the table as it is.
C19_DenseImmutableVersions ==
    [][/\ DenseVersions(versions)
       /\ DenseVersions(versions')
       /\ Len(versions') >= Len(versions)
       /\ \A v \in Ids(versions) : versions'[v] = versions[v]
       /\ IF \E r \in ReqIds : /\ req[r].kind = "definition_upload"
                               /\ Returns(r)
                               /\ lastResponse'.resp.code = 201
          THEN LET rq == lastResponse'
                   k == Cardinality(VersionsOf(versions, rq.tenant,
                                               rq.resp.body.process_key))
                   row == versions'[Len(versions')]
               IN /\ Len(versions') = Len(versions) + 1
                  /\ rq.target = Len(versions')
                  /\ row.tenant = rq.tenant
                  /\ row.process_key = rq.resp.body.process_key
                  /\ row.version = k + 1
                  /\ rq.resp.body.version = k + 1
          ELSE versions' = versions]_vars

\* Two uploads of one definition ran at the same time, one was refused, and
\* a later upload stored the third version of the definition.
C19_ThirdVersionStored ==
    /\ lastResponse.kind = "definition_upload"
    /\ lastResponse.resp.code = 201
    /\ lastResponse.resp.body.version = 3
    /\ \E v \in Ids(versions) : /\ v > 2
                                /\ versions[v].version = 3
                                /\ versions[v].tenant = lastResponse.tenant

\* The task is bound and a supplied id differs from the bound one.
BindingConflict(task, catalog_entry_id, catalog_task_id) ==
    /\ task.catalog_service_task # NoId
    /\ \/ /\ catalog_entry_id # ""
          /\ catalog[task.catalog_service_task].entry # catalog_entry_id
       \/ /\ catalog_task_id # ""
          /\ catalog[task.catalog_service_task].external_id # catalog_task_id

\* The task is not bound, and neither the supplied ids nor the placeholders
\* of its definition version name a catalog task of the tenant.
BindingMissing(tenant, task, catalog_entry_id, catalog_task_id) ==
    /\ task.catalog_service_task = NoId
    /\ ensure_catalog_service_task_binding(tenant, catalog_entry_id,
                                           catalog_task_id) = NoId
    /\ find_catalog_binding_from_definition(
           tenant, instances[task.workflow_instance].definition_version,
           task.element_id, task.element_name) = NoId

\* C20 -- binding errors leave the task untouched.  A start request that
\* holds the lock of a pending or failed task is answered 409 when the task
\* is bound and a supplied catalog_entry_id or service_task_id differs from
\* the bound one, and 400 missing_catalog_binding when the task is not bound
\* and no binding can be resolved; in both cases the task row (status,
\* binding, payloads, timestamps) and every other row are unchanged, no audit
\* event is written and no outbound call is made.
C20_BindingErrorFrame ==
    [][\A r \in ReqIds :
          (/\ req[r].pc = "st_txn1"
           /\ Steps(r)
           /\ serviceTasks[req[r].target].status \in {"pending", "failed"}) =>
              LET rq == req[r]
                  task == serviceTasks[rq.target]
                  conflict == BindingConflict(task, rq.ceid, rq.ctid)
                  missing == BindingMissing(rq.tenant, task, rq.ceid, rq.ctid)
              IN /\ (conflict \/ missing) =>
                        /\ Returns(r)
                        /\ lastResponse'.resp =
                              IF conflict
                              THEN Response(409, Detail("Catalog binding conflict."))
                              ELSE Response(400, Detail("missing_catalog_binding"))
                        /\ serviceTasks'[rq.target] = task
                        /\ db' = db
                        /\ outbound' = outbound
                        /\ resumeCalls' = resumeCalls
                 /\ ~(conflict \/ missing) =>
                        /\ ~Returns(r)
                        /\ serviceTasks'[rq.target].status = "in_progress"]_vars

\* A start that supplied ids other than the bound ones was answered 409 on a
\* pending task for which no outbound call has been made.
C20_ConflictRejected ==
    /\ lastResponse.kind = "service_task_start"
    /\ lastResponse.resp = Response(409, Detail("Catalog binding conflict."))
    /\ lastResponse.target \in Ids(serviceTasks)
    /\ serviceTasks[lastResponse.target].status = "pending"
    /\ serviceTasks[lastResponse.target].catalog_service_task # NoId
    /\ serviceTasks[lastResponse.target].started_at = 0
    /\ outbound[lastResponse.target] = 0

\* At most one row of the table per (instance, task_id).
OneRowPerTask(table) ==
    \A i, j \in Ids(table) :
        (/\ table[i].workflow_instance = table[j].workflow_instance
         /\ table[i].task_id = table[j].task_id) => i = j

\* The rows a step adds to the table are pending and belong to tasks that had
\* no row of their instance.
InsertedPendingOnly(old, new) ==
    /\ Len(new) >= Len(old)
    /\ \A i \in Ids(new) \ Ids(old) :
          /\ new[i].status = "pending"
          /\ \A j \in Ids(old) :
                ~(/\ old[j].workflow_instance = new[i].workflow_instance
                  /\ old[j].task_id = new[i].task_id)

\* The handler r that completes a user task or settles a service task in
\* this step writes the row it was asked about.
WritesOwnRow(r, kinds, pcs) ==
    /\ req[r].kind \in kinds
    /\ req[r].pc \in pcs
    /\ Steps(r)

\* C21 -- materialization is idempotent per (tenant, instance, task_id).  In
\* every state there is at most one UserTask row and at most one ServiceTask
\* row per (instance, task_id).  A step of instance start, sync return or
\* callback inserts rows only for tasks of the snapshot that have no row yet,
\* every inserted row is pending, and the rows that exist (pending, completed
\* or failed) are left as they are, the row of the task being completed or
\* settled excepted.
C21_MaterializationIdempotent ==
    [][/\ OneRowPerTask(userTasks) /\ OneRowPerTask(serviceTasks)
       /\ OneRowPerTask(userTasks') /\ OneRowPerTask(serviceTasks')
       /\ InsertedPendingOnly(userTasks, userTasks')
       /\ InsertedPendingOnly(serviceTasks, serviceTasks')
       /\ \A i \in Ids(userTasks) :
             userTasks'[i] # userTasks[i] =>
                 \E r \in ReqIds : /\ WritesOwnRow(r, {"user_task_complete"}, {"ut_txn"})
                                   /\ req[r].target = i
       /\ \A i \in Ids(serviceTasks) :
             serviceTasks'[i] # serviceTasks[i] =>
                 \E r \in ReqIds :
                     /\ WritesOwnRow(r, {"service_task_start", "service_task_callback"},
                                     {"st_txn1", "st_txn2", "cb_txn2"})
                     /\ req[r].target = i]_vars

\* A callback completed the service task of an instance whose snapshot still
\* holds a user task that has a completed row: no second row was inserted
\* and the completed row is as the completion left it.
C21_SnapshotWithExistingRow ==
    /\ lastResponse.kind = "service_task_callback"
    /\ lastResponse.branch = "completed"
    /\ \E i \in Ids(userTasks) :
          /\ userTasks[i].status = "completed"
          /\ userTasks[i].workflow_instance =
                 serviceTasks[lastResponse.target].workflow_instance
          /\ userTasks[i].task_id \in
                 instances[userTasks[i].workflow_instance].serialized_state.ready

\* The idempotency table of the handler's endpoint.
IdemTableOf(rq, completions, callbacks) ==
    IF rq.kind = "user_task_complete" THEN completions ELSE callbacks

\* The record stored under the handler's key names another task or another
\* request hash.
DiffersFromRecord(rq, record) ==
    \/ record.request_hash # rq.hash
    \/ (IF rq.kind = "user_task_complete"
        THEN record.user_task ELSE record.service_task) # rq.target

\* C22 -- idempotency under concurrency.  A completion or callback that
\* carries an Idempotency-Key and returns when a record of its tenant with
\* that key, stored by a concurrent request with another body or another
\* target task, exists, is answered 409 and stores no second record: the
\* request never ends in an unhandled error.
C22_ConcurrentIdempotency ==
    [][\A r \in ReqIds :
          LET rq == req[r]
              table == IdemTableOf(rq, utIdem, cbIdem)
              stored == IdemLookup(table, rq.tenant, rq.key)
          IN (/\ rq.kind \in {"user_task_complete", "service_task_callback"}
              /\ rq.pc \in {"ut_txn", "cb_txn1", "cb_txn2"}
              /\ Returns(r)
              /\ rq.key # NoKey
              /\ stored # NoId
              /\ DiffersFromRecord(rq, table[stored])) =>
                 /\ lastResponse'.resp = Response(409, Detail("Idempotency key conflict."))
                 /\ utIdem' = utIdem
                 /\ cbIdem' = cbIdem]_vars

\* C23 -- a failed instance does not close its other service tasks.  A start
\* request that holds the lock of a pending service task whose instance has
\* status failed is accepted like any other: the task moves to in_progress
\* with its started_at stamped, a service_task_start event is written and
\* the outbound call is made.
C23_StartOnFailedInstance ==
    [][\A r \in ReqIds :
          LET rq == req[r]
              task == serviceTasks[rq.target]
          IN (/\ rq.pc = "st_txn1"
              /\ Steps(r)
              /\ task.status = "pending"
              /\ instances[task.workflow_instance].status = "failed") =>
                 /\ req'[r].pc = "st_http"
                 /\ serviceTasks'[rq.target].status = "in_progress"
                 /\ serviceTasks'[rq.target].started_at = clock
                 /\ outbound'[rq.target] = outbound[rq.target] + 1
                 /\ Len(audit') = Len(audit) + 1
                 /\ audit'[Len(audit')].event_type = "service_task_start"]_vars

\* The left task has failed by callback, the instance is failed, and the
\* start of the right task is in flight.
C23_StartedAfterFailedCallback ==
    \E i, j \in Ids(serviceTasks), r \in ReqIds :
        /\ i # j
        /\ serviceTasks[i].workflow_instance = serviceTasks[j].workflow_instance
        /\ serviceTasks[i].status = "failed"
        /\ serviceTasks[i].started_at = 0
        /\ serviceTasks[j].status = "in_progress"
        /\ instances[serviceTasks[j].workflow_instance].status = "failed"
        /\ req[r].pc = "st_http"
        /\ req[r].target = j
        /\ req[r].inst.status = "failed"
        /\ outbound[j] = 1

\* Running the interpreter against the serialized state of the instance parks
\* at one or more waiting tasks.
Parks(id) ==
    LET doc == DocOfInstance(id)
        run == run_until_waiting(
                   doc, load_workflow_from_state(doc, instances[id].serialized_state))
    IN run.status # "failed" /\ has_waiting_tasks(doc, run.wf)

\* C24 -- instance status and parked tasks, as stated: in every committed
\* state an instance has status waiting if and only if the interpreter, run
\* against its serialized_state, parks at one or more waiting tasks.
C24_WaitingIffParked ==
    \A id \in Ids(instances) : instances[id].status = "waiting" <=> Parks(id)

\* C24 -- instance status and parked tasks, amended: an instance with status
\* waiting parks at one or more waiting tasks, and an instance that parks at
\* waiting tasks has status waiting or failed (a failed outbound call or a
\* failed callback marks the instance failed and leaves its serialized_state
\* parked at the task).
C24_WaitingParksOrFailed ==
    \A id \in Ids(instances) :
        /\ instances[id].status = "waiting" => Parks(id)
        /\ Parks(id) => instances[id].status \in {"waiting", "failed"}

\* An instance that was resumed by the completion of a service task is
\* waiting and parked at the next one.
C24_WaitingAfterResume ==
    \E id \in Ids(instances), i, j \in Ids(serviceTasks) :
        /\ instances[id].status = "waiting"
        /\ Parks(id)
        /\ serviceTasks[i].workflow_instance = id
        /\ serviceTasks[i].status = "completed"
        /\ serviceTasks[j].workflow_instance = id
        /\ serviceTasks[j].status = "pending"
        /\ serviceTasks[j].task_id \in instances[id].serialized_state.ready

\* The task of the row is ready in the serialized state of its instance and
\* is one the interpreter waits at.
Parked(row) ==
    LET doc == DocOfInstance(row.workflow_instance)
    IN /\ row.task_id \in instances[row.workflow_instance].serialized_state.ready
       /\ is_waiting_task(doc, row.task_id)

\* C25 -- open rows are parked tasks.  In every committed state each
\* UserTask row with status pending and each ServiceTask row with status
\* pending, in_progress or waiting belongs to a task that is ready and
\* waiting in the serialized_state of its instance.
C25_OpenRowsParked ==
    /\ \A i \in Ids(userTasks) :
          userTasks[i].status = "pending" => Parked(userTasks[i])
    /\ \A i \in Ids(serviceTasks) :
          serviceTasks[i].status \in {"pending", "in_progress", "waiting"} =>
              Parked(serviceTasks[i])

\* The callback endpoint has written an event for the task of the row.
SettledByCallback(row) ==
    \E e \in Ids(audit) : /\ audit[e].event_type = "service_task_callback"
                          /\ audit[e].workflow_instance = row.workflow_instance
                          /\ audit[e].task_id = row.task_id

\* C26 -- per-instance serialization.  A callback that completes one service
\* task and the completion of another service task of the same instance (by
\* callback or by sync return) run one after the other, each on the state
\* the other committed, so the callback's update is not lost: in every
\* committed state the task of each ServiceTask row that a callback has
\* completed is completed, and no longer ready, in the serialized_state of
\* its instance.
C26_NoLostCompletion ==
    \A i \in Ids(serviceTasks) :
        (serviceTasks[i].status = "completed" /\ SettledByCallback(serviceTasks[i])) =>
            LET state == instances[serviceTasks[i].workflow_instance].serialized_state
            IN /\ serviceTasks[i].task_id \in state.completed
               /\ serviceTasks[i].task_id \notin state.ready

\* C27 -- sync success resumes from the current state.  When the second
\* transaction of a sync start completes its task, the status and the
\* serialized_state it persists are a result of resuming the
\* serialized_state the instance has inside that transaction, whatever was
\* committed to the instance while the outbound call was in flight.
C27_ResumeFromCurrentState ==
    [][\A r \in ReqIds :
          LET rq == req[r]
              task == serviceTasks[rq.target]
              iid == task.workflow_instance
          IN (/\ rq.pc = "st_txn2"
              /\ Returns(r)
              /\ lastResponse'.branch = "completed") =>
                 \E run_result \in resume_workflow_from_state(
                         DocOfInstance(iid), instances[iid].serialized_state,
                         task.task_id, normalize_result_payload(rq.http.payload)) :
                     /\ ~run_result.raised
                     /\ instances'[iid].serialized_state = run_result.serialized_state
                     /\ instances'[iid].status = run_result.status]_vars

\* C28 -- a completed service task is final.  No step changes the status of
\* a ServiceTask row that is completed: neither a callback, whatever its
\* body, nor a start request that was between its two transactions when the
\* task became completed.
C28_CompletedIsFinal ==
    [][\A i \in Ids(serviceTasks) :
          serviceTasks[i].status = "completed" =>
              serviceTasks'[i].status = "completed"]_vars

\* A callback for the task of handler r can take the row lock now.
CallbackCanLock(r) ==
    ENABLED (\E q \in ReqIds :
                /\ ServiceTaskCallbackBegin(
                       q, RawKeyOf(req[r].tenant), req[r].target, BodyCompleted,
                       <<"1", "700000000">>,
                       callback_signature(RawKeyOf(req[r].tenant), BodyCompleted,
                                          <<"1", "700000000">>), NoKey)
                /\ req'[q].pc = "cb_txn1")

\* C29 -- no lock across the network.  The step that puts the outbound call
\* of a start request in flight commits the task as in_progress; while the
\* call is in flight the request is in no transaction and holds no row lock,
\* so that a request of another client on the same task takes the row lock
\* whenever a worker is free and no third request is in a transaction on
\* the task or its instance.
C29_NoLockAcrossCall ==
    [][\A r \in ReqIds :
          /\ (req[r].pc = "st_txn1" /\ req'[r].pc = "st_http") =>
                 /\ serviceTasks'[req[r].target].status = "in_progress"
                 /\ outbound'[req[r].target] = outbound[req[r].target] + 1
          /\ req[r].pc = "st_http" =>
                 /\ ~InServiceTaskTxn(r)
                 /\ ~InUserTaskTxn(r)
                 /\ (/\ \E q \in ReqIds : CanIssue(q)
                     /\ \A q \in ReqIds \ {r} : ~InServiceTaskTxn(q)) =>
                        /\ ~ServiceTaskLocked(req[r].target)
                        /\ ~InstanceLocked(serviceTasks[req[r].target].workflow_instance)
                        /\ CallbackCanLock(r)]_vars

\* While the outbound call of a start request is in flight, a callback for
\* the same task is inside its second transaction, holding the row lock.
C29_CallbackDuringCall ==
    \E r, q \in ReqIds :
        /\ req[r].pc = "st_http"
        /\ req[q].pc = "cb_txn2"
        /\ req[q].target = req[r].target
        /\ serviceTasks[req[r].target].status = "in_progress"

\* The step appends exactly this one event to the log.
WritesOneEvent(event_type, row) ==
    audit' = Append(audit, [tenant |-> row.tenant, event_type |-> event_type,
                            workflow_instance |-> row.workflow_instance,
                            task_id |-> row.task_id])

\* The answers of requests that replay, do nothing or are rejected.
QuietBranches ==
    { "not_found", "replay", "conflict", "already_completed", "noop",
      "binding_conflict", "missing_binding", "integrity_error", "resume_raised",
      "missing_key", "missing_headers", "bad_signature", "compare_raised",
      "missing_catalog_binding", "invalid_bpmn", "found", "list" }

\* C30 -- audit events are written once per domain event and never altered.
\* No step changes or removes an event of the log.  A step that takes a
\* user task from pending to completed appends exactly one
\* user_task_complete event; a step that takes a service task into
\* in_progress appends exactly one service_task_start event; a step in which
\* a callback sets a service task completed or failed appends exactly one
\* service_task_callback event; each event names the instance and the task.
\* A request answered as a replay, a no-op or a rejection appends none, and
\* nothing else but an instance start appends an event.
C30_AuditOncePerEvent ==
    [][/\ Len(audit') >= Len(audit)
       /\ \A e \in Ids(audit) : audit'[e] = audit[e]
       /\ \A i \in Ids(userTasks) :
             (userTasks[i].status = "pending" /\ userTasks'[i].status = "completed") =>
                 WritesOneEvent("user_task_complete", userTasks[i])
       /\ \A i \in Ids(serviceTasks) :
             (/\ serviceTasks[i].status # "in_progress"
              /\ serviceTasks'[i].status = "in_progress") =>
                 WritesOneEvent("service_task_start", serviceTasks[i])
       /\ \A r \in ReqIds :
             (/\ req[r].kind = "service_task_callback"
              /\ Steps(r)
              /\ serviceTasks'[req[r].target] # serviceTasks[req[r].target]) =>
                 /\ serviceTasks'[req[r].target].status \in {"completed", "failed"}
                 /\ WritesOneEvent("service_task_callback", serviceTasks[req[r].target])
       /\ (\E r \in ReqIds : Returns(r) /\ lastResponse'.branch \in QuietBranches) =>
             audit' = audit
       /\ audit' # audit =>
             /\ Len(audit') = Len(audit) + 1
             /\ \/ \E i \in Ids(userTasks) :
                      userTasks[i].status = "pending" /\ userTasks'[i].status = "completed"
                \/ \E i \in Ids(serviceTasks) :
                      /\ serviceTasks[i].status # "in_progress"
                      /\ serviceTasks'[i].status = "in_progress"
                \/ \E r \in ReqIds :
                      /\ req[r].kind = "service_task_callback"
                      /\ req[r].pc = "cb_txn2"
                      /\ serviceTasks'[req[r].target].status \in {"completed", "failed"}
                \/ Len(instances') = Len(instances) + 1]_vars

\* The log holds one event of each kind for one instance: its start, the
\* completion of a user task, the start of its service task and the callback
\* that settled it.
C30_OneEventOfEachKind ==
    /\ Len(audit) = 4
    /\ {audit[e].event_type : e \in Ids(audit)} =
          {"instance_start", "user_task_complete", "service_task_start",
           "service_task_callback"}

\* C31 -- no service task is left in_progress.  When a start request that
\* moved its ServiceTask to in_progress finishes, whatever the outbound call
\* and the interpreter resume did, the task is waiting, completed or failed.
C31_NoTaskLeftInProgress ==
    [][ \A r \in ReqIds :
          ( /\ req[r].kind = "service_task_start"
            /\ req[r].pc \in {"st_http", "st_txn2"}
            /\ Returns(r) )
          => serviceTasks'[req[r].target].status \in {"waiting", "completed", "failed"}
      ]_vars

\* The script tasks at which the engine state stands failed.
FailedScripts(doc, wf) == {t \in wf.ready : ScriptFails(doc, t)}

\* The position of a task in the order in which the engine lists its tasks.
Pos(doc, t) == CHOOSE k \in 1..Len(doc.order) : doc.order[k] = t

\* Instance i is created in this step.
IsNewInstance(i) == i \notin Ids(instances)

\* The engine state a run of this step began with, for instance i.
StateBefore(i) ==
    IF IsNewInstance(i)
    THEN build_workflow(versions[instances'[i].definition_version].doc)
    ELSE instances[i].serialized_state

\* A run of the interpreter stored its state for instance i in this step.
RunStored(i) ==
    IsNewInstance(i) \/ instances'[i].serialized_state # instances[i].serialized_state

\* A run that stored a state standing at a failed script stored the
\* instance as failed, left the script uncompleted and its successors
\* unreached, executed no task listed after a script that was ready when the
\* run began, and created no UserTask and no ServiceTask row.
FailedRunStored ==
    \A i \in Ids(instances') :
        LET doc == versions[instances'[i].definition_version].doc
            new == instances'[i].serialized_state
            old == StateBefore(i)
        IN (RunStored(i) /\ FailedScripts(doc, new) # {}) =>
             /\ instances'[i].status = "failed"
             /\ Len(userTasks') = Len(userTasks)
             /\ Len(serviceTasks') = Len(serviceTasks)
             /\ \A s \in FailedScripts(doc, new) :
                   /\ s \notin new.completed
                   /\ doc.succ[s] \cap (new.ready \cup new.completed) = {}
                   /\ s \in old.ready =>
                         \A t \in new.completed \ old.completed : Pos(doc, t) < Pos(doc, s)

\* C32 -- ScriptTask failure.  When a ScriptTask fails during start or
\* resume (missing or empty source, compile error, runtime exception) the
\* run ends with status failed: a start request for an existing version is
\* never ended by an exception of the script, and a run that stops at a
\* failed script stores the instance as failed, executes no further task
\* and creates no UserTask and no ServiceTask row.
C32_ScriptFailure ==
    [][ /\ FailedRunStored
        /\ (issued' # issued /\ lastResponse'.kind = "instance_start") =>
              lastResponse'.branch # "start_raised"
      ]_vars

\* C33 -- the advance loop drains every non-waiting ready task.  No
\* WorkflowInstance row has status running: every row is waiting, completed
\* or failed, and unless its run stopped at a failed script every ready task
\* of its stored engine state is a waiting task.
C33_AdvanceLoopDrains ==
    \A i \in Ids(instances) :
        LET doc == versions[instances[i].definition_version].doc
            wf == instances[i].serialized_state
        IN /\ instances[i].status \in {"waiting", "completed", "failed"}
           /\ FailedScripts(doc, wf) = {} =>
                 \A t \in wf.ready : is_waiting_task(doc, t)
           /\ instances[i].status \in {"waiting", "completed"} => FailedScripts(doc, wf) = {}

\* An instance of intake_v1 whose script runs was started: the loop needed a
\* second pass to execute Task_Stamp, and the engine stands at the external
\* task, the send task and the user task.
C33_DrainedInTwoPasses ==
    /\ Len(instances) = 1
    /\ instances[1].status = "waiting"
    /\ instances[1].serialized_state.completed =
           {"Task_Open", "Task_Stamp", "ScriptTask_Check", "Task_Close"}
    /\ instances[1].serialized_state.ready =
           {"ExternalTask_Job", "SendTask_Notify", "UserTask_Review"}

\* C34 -- a ready SendTask or ExternalTask parks the engine without being
\* surfaced.  Such a task is never executed; while it is ready the instance
\* is waiting (or failed), the task is in neither list of waiting snapshots
\* of the stored state, and no UserTask or ServiceTask row exists for it.
C34_ParkedNotMaterialized ==
    \A i \in Ids(instances) :
        LET doc == versions[instances[i].definition_version].doc
            wf == instances[i].serialized_state
        IN \A t \in DOMAIN doc.type :
             doc.type[t] \in {"SendTask", "ExternalTask"} =>
               /\ t \notin wf.completed
               /\ \A id \in Ids(userTasks) :
                     ~(userTasks[id].workflow_instance = i /\ userTasks[id].task_id = t)
               /\ \A id \in Ids(serviceTasks) :
                     ~(serviceTasks[id].workflow_instance = i /\ serviceTasks[id].task_id = t)
               /\ t \in wf.ready =>
                     /\ instances[i].status \in {"waiting", "failed"}
                     /\ FailedScripts(doc, wf) = {} => instances[i].status = "waiting"
                     /\ t \notin Range(collect_waiting_user_tasks(doc, wf))
                     /\ t \notin Range(collect_waiting_service_tasks(doc, wf))

\* An instance stands at a send task and an external task: it is waiting,
\* and the only task row is the one of the user task.
C34_ParkedAtSendTask ==
    /\ Len(instances) = 1
    /\ {"SendTask_Notify", "ExternalTask_Job"} \subseteq instances[1].serialized_state.ready
    /\ instances[1].status = "waiting"
    /\ Len(userTasks) = 1
    /\ userTasks[1].task_id = "UserTask_Review"
    /\ serviceTasks = <<>>

\* The last call was a run that returned, and instance i holds what it stored.
ProducedBy(i, call) ==
    /\ call.kind \in {"engine_start", "engine_resume", "engine_advance"}
    /\ call.target = i
    /\ ~call.resp.body.raised
    /\ call.resp.body.serialized_state = instances[i].serialized_state

\* Resuming without a completed task returns what the run before returned.
SameRunResult(before, after) ==
    /\ ~after.raised
    /\ after.status = before.status
    /\ Range(after.waiting_user_tasks) = Range(before.waiting_user_tasks)
    /\ Range(after.waiting_service_tasks) = Range(before.waiting_service_tasks)

PlaceholderMatches(placeholder, element_id, element_name) ==
    \/ placeholder.element_id = element_id
    \/ placeholder.element_name = element_name

\* C36 -- auto-binding uses matching placeholders only.  A catalog task
\* returned for an element is the one named by a placeholder of the
\* definition version whose element_id equals the element's id or whose
\* element_name equals the element's name, whether or not the element's id
\* and name are empty.
C36_BindsFromMatchingPlaceholder ==
    (lastResponse.kind = "find_binding" /\ lastResponse.resp.body.catalog_task # NoId) =>
        \E placeholder \in Range(versions[lastResponse.target].catalog_binding_placeholders) :
            /\ PlaceholderMatches(placeholder, lastResponse.resp.body.element_id,
                                  lastResponse.resp.body.element_name)
            /\ ensure_catalog_service_task_binding(
                   lastResponse.tenant, placeholder.catalog_entry_id,
                   placeholder.service_task_id) = lastResponse.resp.body.catalog_task

\* C37: a start request on an unbound task that supplies both
\* catalog_entry_id and service_task_id and is accepted binds the task to
\* the tenant's catalog task with exactly those two external ids.
C37_BoundToNamedCatalogTask ==
    [][\A r \in ReqIds :
         ( /\ req[r].pc = "st_txn1"
           /\ req'[r].pc = "st_http"
           /\ serviceTasks[req[r].target].catalog_service_task = NoId
           /\ req[r].ceid # ""
           /\ req[r].ctid # "" )
         => LET bound == catalog'[serviceTasks'[req[r].target].catalog_service_task]
            IN /\ bound.tenant = req[r].tenant
               /\ bound.entry = req[r].ceid
               /\ bound.external_id = req[r].ctid]_vars

\* C38: a callback signature binds one (body, timestamp) pair: when a
\* request has passed the signature check with its key, body and
\* timestamp, the same signature passes the check under that key for no
\* other pair of body and timestamp.
C38_SignatureBindsOnePair ==
    \A r \in ReqIds :
        (req[r].kind = "service_task_callback" /\ req[r].pc = "cb_txn1")
        => \A body \in CallbackBodies, timestamp \in CallbackTimestamps \ {NoHeader} :
              compare_digest(callback_signature(req[r].raw_key, body, timestamp),
                             req[r].sig) = "equal"
              => <<body, timestamp>> = <<req[r].body, req[r].ts>>

\* The catalog rows of a tenant that exist, in the order of their creation.
LiveCatalog(rows, tenant) ==
    SelectSeq(rows, LAMBDA row : row.tenant = tenant)

PayloadRows(tenant, payload) ==
    [k \in 1..Len(payload) |->
       [tenant |-> tenant, entry |-> payload[k][1], external_id |-> payload[k][2]]]

BoundTasksReferenceCatalog(tasks, rows) ==
    \A id \in Ids(tasks) :
        tasks[id].catalog_service_task # NoId
        => /\ tasks[id].catalog_service_task \in Ids(rows)
           /\ rows[tasks[id].catalog_service_task] # DeletedCatalogTask
           /\ rows[tasks[id].catalog_service_task].tenant = tasks[id].tenant

\* C39: every bound ServiceTask references an existing CatalogServiceTask;
\* a discovery sync of a tenant whose catalog is referenced is refused and
\* leaves the catalog as it was; a sync that succeeds replaces the tenant's
\* catalog by the payload's rows in one step and leaves the catalogs of
\* the other tenants alone.
C39_CatalogReferentialIntegrity ==
    [][/\ BoundTasksReferenceCatalog(serviceTasks', catalog')
       /\ (issued' # issued /\ req' = req /\ lastResponse'.kind = "discovery_sync")
          => LET tenant == lastResponse'.tenant IN
             IF Referenced(tenant)
             THEN /\ lastResponse'.branch = "protected"
                  /\ catalog' = catalog
             ELSE /\ lastResponse'.branch = "synced"
                  /\ LiveCatalog(catalog', tenant)
                       = PayloadRows(tenant, lastResponse'.resp.body)
                  /\ \A other \in Tenants \ {tenant} :
                        LiveCatalog(catalog', other) = LiveCatalog(catalog, other)
                  /\ \A c \in Ids(catalog) :
                        catalog[c].tenant = tenant => catalog'[c] = DeletedCatalogTask]_vars

\* A sync was refused because a started task is bound to a row of a catalog
\* that an earlier sync had replaced.
C39_SyncRefusedAfterReplace ==
    /\ lastResponse.kind = "discovery_sync"
    /\ lastResponse.branch = "protected"
    /\ \E c \in Ids(catalog) : catalog[c] = DeletedCatalogTask
    /\ \E id \in Ids(serviceTasks) : serviceTasks[id].catalog_service_task # NoId

\* The error list is in ascending order of (path, code, message).
ErrorsSorted(errors) ==
    \A i, j \in 1..Len(errors) : i < j => ~error_key_less(errors[j], errors[i])

\* The placeholder was taken from a serviceTask element of the document.
RefersToServiceTask(placeholder, document) ==
    /\ placeholder.element_type = "serviceTask"
    /\ \E found \in Range(iter_elements_with_paths(document.root)) :
          /\ found.element.namespace = BPMN_MODEL_NS
          /\ found.element.local = "serviceTask"
          /\ attrib_get(found.element, "id", "") = placeholder.element_id
          /\ attrib_get(found.element, "name", "") = placeholder.element_name

\* C40: validate_bpmn_xml returns exactly one of (snapshot, empty error
\* list) or (no snapshot, non-empty error list sorted by (path, code,
\* message)); a returned snapshot has a non-empty process_key and each of
\* its catalog-binding placeholders refers to a serviceTask element.
C40_ValidateReturnsSnapshotOrErrors ==
    lastResponse.kind = "validate_bpmn" =>
        LET document == lastResponse.resp.body.document
            result == lastResponse.resp.body.result
        IN /\ result.raised = ""
           /\ \/ /\ Len(result.snapshot) = 1
                 /\ result.errors = <<>>
              \/ /\ result.snapshot = <<>>
                 /\ result.errors # <<>>
                 /\ ErrorsSorted(result.errors)
           /\ \A snapshot \in Range(result.snapshot) :
                 /\ snapshot.process_key # ""
                 /\ \A placeholder \in Range(snapshot.catalog_binding_placeholders) :
                       RefersToServiceTask(placeholder, document)
====
